---- MODULE Spec2Model ----
(***************************************************************************)
(* WellSync AI: the serving registry, the three prediction endpoints, the  *)
(* single-record feature transforms and the training pipelines.            *)
(*                                                                         *)
(* Encoding of numbers: integer fields are kept as they are; fields the    *)
(* schemas declare as float (hours) are kept in tenths, so 9.5 hours is 95 *)
(* and the threshold "> 8" reads "> 80".  Predictions are kept in tenths   *)
(* as well.  A quotient is kept symbolically as a record                   *)
(* [num, den, eps]: num / (den + eps * 1e-6).                              *)
(***************************************************************************)
EXTENDS Integers, Sequences, FiniteSets, TLC

VARIABLES
    disk,        \* persisted artifact files: file name -> Absent, Corrupt or the run that wrote it
    registry,    \* the three module globals of api/main.py: task -> <<>> (None) or <<predictor>>
    started,     \* startup_event has run
    loads,       \* number of artifact-loading attempts (predictor constructions) so far
    req,         \* the last HTTP request
    resp,        \* the response to it
    calls,       \* the predictor.predict invocations made while handling req
    name_check,  \* the installed scikit-learn validates feature names in transform
    fin,         \* the input of the transform under comparison
    fout,        \* <<>> or <<its outputs>>
    train        \* the training run in progress or last ended

servVars == <<disk, registry, started, loads, req, resp, calls, name_check>>
pureVars == <<fin, fout>>
vars == <<servVars, pureVars, train>>

(***************************************************************************)
(* Bounds                                                                  *)
(***************************************************************************)
MaxRun == 2      \* training runs that may have written a file
MaxLoads == 4    \* predictor constructions a process makes
MaxCalls == 2    \* predict calls in progress at the same time

(***************************************************************************)
(* Persisted artifacts                                                     *)
(***************************************************************************)
Tasks == {"mental_wellness", "academic_impact", "stress_prediction"}

Absent == 0      \* os.path.exists(path) is false
Corrupt == -1    \* the file exists but joblib.load raises on it

\* ModelLoader.load_all reads these four, in this order
LoaderFiles == <<"best_model.pkl", "preprocessors.pkl", "feature_names.pkl", "model_metadata.pkl">>

\* ModelLoader.__init__: base_path = models/<model_type>
ModelType(task) == IF task = "academic_impact" THEN "academic" ELSE "mental_health"

Path(dir, name) == <<dir, name>>

\* StressPredictionPredictor._load_model reads these two from models/mental_health
StressModelPath == Path("mental_health", "stress_model.pkl")
StressPreprocessorPath == Path("mental_health", "stress_preprocessors.pkl")

ArtifactFiles(task) ==
    IF task = "stress_prediction"
    THEN {StressModelPath, StressPreprocessorPath}
    ELSE {Path(ModelType(task), LoaderFiles[i]) : i \in 1..Len(LoaderFiles)}

AllFiles == UNION {ArtifactFiles(t) : t \in Tasks}

\* every artifact of the task is present and readable
Complete(d, task) == \A f \in ArtifactFiles(task) : d[f] \in 1..MaxRun

(***************************************************************************)
(* ModelLoader and the predictors' constructors                            *)
(***************************************************************************)
\* load_model / load_preprocessors / load_feature_names / load_metadata:
\* FileNotFoundError when the path does not exist, else joblib.load
load_file(d, f) ==
    IF d[f] = Absent THEN "FileNotFoundError"
    ELSE IF d[f] = Corrupt THEN "Exception"
    ELSE "ok"

RECURSIVE load_from(_, _, _)
load_from(d, dir, i) ==
    IF i > Len(LoaderFiles) THEN "ok"
    ELSE IF load_file(d, Path(dir, LoaderFiles[i])) # "ok"
         THEN load_file(d, Path(dir, LoaderFiles[i]))
         ELSE load_from(d, dir, i + 1)

\* a load_all that leaves the metadata to the lazy load of get_model_info
load_all_lazy_metadata(d, model_type) ==
    LET load(i) == load_file(d, Path(model_type, LoaderFiles[i]))
    IN  IF load(1) # "ok" THEN load(1) ELSE IF load(2) # "ok" THEN load(2) ELSE load(3)

\* ModelLoader.load_all: the four loads in order, the first failure propagates
load_all(d, model_type) == load_from(d, model_type, 1)

\* outcome of constructing the task's predictor
Construct(d, task) ==
    LET \* StressPredictionPredictor._load_model: both existence checks, then both loads
        _load_model ==
            IF d[StressModelPath] = Absent THEN "FileNotFoundError"
            ELSE IF d[StressPreprocessorPath] = Absent THEN "FileNotFoundError"
            ELSE IF d[StressModelPath] = Corrupt THEN "Exception"
            ELSE IF d[StressPreprocessorPath] = Corrupt THEN "Exception"
            ELSE "ok"
    IN  IF task = "stress_prediction" THEN _load_model ELSE load_all(d, ModelType(task))

\* the constructed predictor: which run's artifacts it holds
MentalWellnessPredictor(d) ==
    [model         |-> d[Path("mental_health", "best_model.pkl")],
     preprocessors |-> d[Path("mental_health", "preprocessors.pkl")],
     feature_names |-> d[Path("mental_health", "feature_names.pkl")],
     metadata      |-> d[Path("mental_health", "model_metadata.pkl")]]

AcademicImpactPredictor(d) ==
    [model         |-> d[Path("academic", "best_model.pkl")],
     preprocessors |-> d[Path("academic", "preprocessors.pkl")],
     feature_names |-> d[Path("academic", "feature_names.pkl")],
     metadata      |-> d[Path("academic", "model_metadata.pkl")]]

StressPredictionPredictor(d) ==
    [model         |-> d[StressModelPath],
     preprocessors |-> d[StressPreprocessorPath]]

None == <<>>
Loaded(reg, task) == reg[task] # None

(***************************************************************************)
(* api/main.py: startup_event                                              *)
(***************************************************************************)
\* The registry startup_event leaves behind.  One outer try wraps the three
\* constructions; only the stress construction has its own
\* except FileNotFoundError.
StartupRegistry(d) ==
    LET mw == Construct(d, "mental_wellness")
        ac == Construct(d, "academic_impact")
        st == Construct(d, "stress_prediction")
    IN  [t \in Tasks |->
           CASE t = "mental_wellness" ->
                  IF mw = "ok" THEN <<MentalWellnessPredictor(d)>> ELSE None
             [] t = "academic_impact" ->
                  IF mw = "ok" /\ ac = "ok" THEN <<AcademicImpactPredictor(d)>> ELSE None
             [] t = "stress_prediction" ->
                  IF mw = "ok" /\ ac = "ok" /\ st = "ok"
                  THEN <<StressPredictionPredictor(d)>> ELSE None]

startup_event ==
    LET \* constructions startup_event attempts before an exception ends it
        StartupLoads(d) ==
            IF Construct(d, "mental_wellness") # "ok" THEN 1
            ELSE IF Construct(d, "academic_impact") # "ok" THEN 2
            ELSE 3
    IN  /\ ~started
        /\ req.task = "none"
        /\ started' = TRUE
        /\ registry' = StartupRegistry(disk)
        /\ loads' = loads + StartupLoads(disk)
        /\ UNCHANGED <<disk, req, resp, calls, name_check, pureVars, train>>

(***************************************************************************)
(* utils/validators.py: the raw-record schemas                             *)
(***************************************************************************)
\* a raw record is an ordered mapping: keys in insertion order, and their values
Rec(keys, vals) == [keys |-> keys, vals |-> vals]

Range(s) == {s[i] : i \in 1..Len(s)}
Has(rec, k) == k \in DOMAIN rec.vals

\* declared fields, in declaration order
MentalWellnessFields ==
    <<"age", "gender", "occupation", "work_mode", "screen_time_hours",
      "work_screen_hours", "leisure_screen_hours", "sleep_hours",
      "sleep_quality_1_5", "stress_level_0_10", "productivity_0_100",
      "exercise_minutes_per_week", "social_hours_per_week">>

AcademicImpactFields ==
    <<"age", "gender", "academic_level", "country", "most_used_platform",
      "avg_daily_usage_hours", "sleep_hours_per_night", "mental_health_score",
      "conflicts_over_social_media", "affects_academic_performance",
      "relationship_status">>

\* api/main.py imports StressPredictionInput from validators.py, which does
\* not define it; its fields are the ones predict_stress_level documents
StressPredictionFields ==
    <<"age", "gender", "occupation", "work_mode", "screen_time_hours",
      "work_screen_hours", "leisure_screen_hours", "sleep_hours",
      "sleep_quality_1_5", "productivity_0_100", "exercise_minutes_per_week",
      "social_hours_per_week", "mental_wellness_index_0_100">>

Fields(task) ==
    CASE task = "mental_wellness" -> MentalWellnessFields
      [] task = "academic_impact" -> AcademicImpactFields
      [] task = "stress_prediction" -> StressPredictionFields

\* fields declared str
StrFields ==
    {"gender", "occupation", "work_mode", "academic_level", "country",
     "most_used_platform", "affects_academic_performance", "relationship_status"}

Unit(field) ==
    LET \* fields declared float, kept in tenths
        FloatFields ==
            {"screen_time_hours", "work_screen_hours", "leisure_screen_hours",
             "sleep_hours", "social_hours_per_week", "avg_daily_usage_hours",
             "sleep_hours_per_night", "mental_wellness_index_0_100"}
    IN  IF field \in FloatFields THEN 10 ELSE 1

AcademicImpactBounds ==
    [age |-> <<17, 30>>, avg_daily_usage_hours |-> <<0, 24>>,
     sleep_hours_per_night |-> <<0, 24>>, mental_health_score |-> <<0, 10>>,
     conflicts_over_social_media |-> <<0, 5>>]

StressPredictionBounds ==
    [age |-> <<18, 100>>, screen_time_hours |-> <<0, 24>>,
     work_screen_hours |-> <<0, 24>>, leisure_screen_hours |-> <<0, 24>>,
     sleep_hours |-> <<0, 24>>, sleep_quality_1_5 |-> <<1, 5>>,
     productivity_0_100 |-> <<0, 100>>, exercise_minutes_per_week |-> <<0>>,
     social_hours_per_week |-> <<0>>, mental_wellness_index_0_100 |-> <<0, 100>>]

Bounds(task) ==
    LET \* Field(..., ge=, le=): <<ge>> or <<ge, le>>
        MentalWellnessBounds ==
            [age |-> <<18, 100>>, screen_time_hours |-> <<0, 24>>,
             work_screen_hours |-> <<0, 24>>, leisure_screen_hours |-> <<0, 24>>,
             sleep_hours |-> <<0, 24>>, sleep_quality_1_5 |-> <<1, 5>>,
             stress_level_0_10 |-> <<0, 10>>, productivity_0_100 |-> <<0, 100>>,
             exercise_minutes_per_week |-> <<0>>, social_hours_per_week |-> <<0>>]
    IN  CASE task = "mental_wellness" -> MentalWellnessBounds
          [] task = "academic_impact" -> AcademicImpactBounds
          [] task = "stress_prediction" -> StressPredictionBounds

\* a schema whose fields declare ge but no le
InBoundsLowerOnly(b, field, v) ==
    v >= b[field][1] * Unit(field)

\* ge / le of one field
InBounds(b, field, v) ==
    /\ v >= b[field][1] * Unit(field)
    /\ Len(b[field]) = 2 => v <= b[field][2] * Unit(field)

FieldValid(task, rec, field) ==
    /\ Has(rec, field)
    /\ field \in DOMAIN Bounds(task) => InBounds(Bounds(task), field, rec.vals[field])

\* the validator registered for work_screen_hours alone
validate_work_screen_only(rec, field) ==
    (FieldValid("mental_wellness", rec, "screen_time_hours") /\ Has(rec, field)
       /\ field = "work_screen_hours")
        => rec.vals[field] <= rec.vals["screen_time_hours"]

\* MentalWellnessInput.validate_screen_time_breakdown, for field work_screen_hours
\* or leisure_screen_hours: checked only when screen_time_hours itself validated
validate_screen_time_breakdown(rec, field) ==
    (FieldValid("mental_wellness", rec, "screen_time_hours") /\ Has(rec, field))
        => rec.vals[field] <= rec.vals["screen_time_hours"]

\* the request body passes the task's schema (otherwise FastAPI answers 422)
Valid(task, rec) ==
    LET \* AcademicImpactInput.validate_mental_health
        validate_mental_health ==
            Has(rec, "mental_health_score")
                => (rec.vals["mental_health_score"] >= 0 /\ rec.vals["mental_health_score"] <= 10)
    IN  /\ \A field \in Range(Fields(task)) : FieldValid(task, rec, field)
        /\ task = "mental_wellness" =>
             /\ validate_screen_time_breakdown(rec, "work_screen_hours")
             /\ validate_screen_time_breakdown(rec, "leisure_screen_hours")
        /\ task = "academic_impact" => validate_mental_health

\* input_data.dict(): the declared fields, in declaration order
dict(task, rec) == Rec(Fields(task), [k \in Range(Fields(task)) |-> rec.vals[k]])

(***************************************************************************)
(* Requests the model sends: the documented examples, varied one field at  *)
(* a time                                                                  *)
(***************************************************************************)
Example(task) ==
    LET \* api/main.py get_stress_prediction_example
        StressPredictionExample ==
            [age |-> 28, gender |-> "Male", occupation |-> "Software Engineer",
             work_mode |-> "Hybrid", screen_time_hours |-> 95, work_screen_hours |-> 70,
             leisure_screen_hours |-> 25, sleep_hours |-> 65, sleep_quality_1_5 |-> 3,
             productivity_0_100 |-> 65, exercise_minutes_per_week |-> 120,
             social_hours_per_week |-> 80, mental_wellness_index_0_100 |-> 550]
    IN  LET \* api/main.py get_academic_impact_example
            AcademicImpactExample ==
                [age |-> 21, gender |-> "Female", academic_level |-> "Bachelor",
                 country |-> "USA", most_used_platform |-> "Instagram",
                 avg_daily_usage_hours |-> 45, sleep_hours_per_night |-> 65,
                 mental_health_score |-> 6, conflicts_over_social_media |-> 2,
                 affects_academic_performance |-> "Yes", relationship_status |-> "Single"]
        IN  LET \* api/main.py get_mental_wellness_example
                MentalWellnessExample ==
                    [age |-> 28, gender |-> "Male", occupation |-> "Software Engineer",
                     work_mode |-> "Hybrid", screen_time_hours |-> 95, work_screen_hours |-> 70,
                     leisure_screen_hours |-> 25, sleep_hours |-> 70, sleep_quality_1_5 |-> 4,
                     stress_level_0_10 |-> 5, productivity_0_100 |-> 75,
                     exercise_minutes_per_week |-> 180, social_hours_per_week |-> 100]
            IN  CASE task = "mental_wellness" -> MentalWellnessExample
                  [] task = "academic_impact" -> AcademicImpactExample
                  [] task = "stress_prediction" -> StressPredictionExample

(***************************************************************************)
(* Data frames of one row.  A cell is a record whose fields tell its kind: *)
(*   [int]            an integer (or a float kept in tenths)               *)
(*   [str]            a category string                                    *)
(*   [num, den, eps]  the quotient num / (den + eps * 1e-6)                *)
(*   [terms]          a weighted sum of quotients, weights in hundredths   *)
(*   [nan]            NaN                                                  *)
(*   [median_of]      the imputer's training median of a column            *)
(***************************************************************************)
I(x) == [int |-> x]
Q(n, d, e) == [num |-> n, den |-> d, eps |-> e]
NaN == [nan |-> TRUE]
B(cond) == I(IF cond THEN 1 ELSE 0)
W(w, q) == [w |-> w, num |-> q.num, den |-> q.den, eps |-> q.eps]

\* a sum is NaN as soon as one of its terms is 0/0
Sum(ts) ==
    LET IsNaNQ(q) == q.num = 0 /\ q.den = 0 /\ q.eps = 0
    IN  IF \E i \in 1..Len(ts) : IsNaNQ(ts[i]) THEN NaN ELSE [terms |-> ts]

Max(a, b) == IF a >= b THEN a ELSE b

\* pd.DataFrame([input_data]): the columns are the keys, in the dict's order
DataFrame(rec) ==
    LET S(x) == [str |-> x]
    IN  [cols |-> rec.keys,
         v    |-> [k \in DOMAIN rec.vals |->
                     IF k \in StrFields THEN S(rec.vals[k]) ELSE I(rec.vals[k])],
         err  |-> ""]

\* df[name] = value for each name in turn: an existing column keeps its
\* place, a new one is appended
Assign(df, names, vals) ==
    [cols |-> df.cols \o SelectSeq(names, LAMBDA n : n \notin Range(df.cols)),
     v    |-> vals @@ df.v,
     err  |-> df.err]

Raise(df, e) == [cols |-> df.cols, v |-> df.v, err |-> e]

\* pd.cut with right=False: intervals [bins[i], bins[i+1])
cut_left_closed(x, bins, labels) ==
    IF \E i \in 1..Len(labels) : bins[i] <= x /\ x < bins[i + 1]
    THEN <<labels[CHOOSE i \in 1..Len(labels) : bins[i] <= x /\ x < bins[i + 1]]>>
    ELSE <<>>

\* pd.cut(x, bins, labels): intervals (bins[i], bins[i+1]], <<>> for NaN
cut(x, bins, labels) ==
    IF \E i \in 1..Len(labels) : bins[i] < x /\ x <= bins[i + 1]
    THEN <<labels[CHOOSE i \in 1..Len(labels) : bins[i] < x /\ x <= bins[i + 1]]>>
    ELSE <<>>

(***************************************************************************)
(* utils/preprocessing.py: serving-time feature engineering                *)
(***************************************************************************)
MentalWellnessEngineered ==
    <<"work_screen_ratio", "leisure_screen_ratio", "sleep_efficiency",
      "work_life_balance", "screen_sleep_ratio", "health_score",
      "stress_productivity_interaction", "age_group", "high_screen_time",
      "excessive_work_screen", "screen_time_squared", "stress_squared",
      "sleep_squared">>

\* preprocess_mental_wellness_input, step 4: the three normalisation denominators
mental_wellness_health_denominators(r) ==
    [sleep_quality_1_5 |-> 5, exercise_minutes_per_week |-> 300, social_hours_per_week |-> 20]

\* preprocess_mental_wellness_input, step 7: the high_screen_time threshold
mental_wellness_screen_threshold(r) == 80

\* preprocess_mental_wellness_input, feature engineering
engineer_mental_wellness(rec) ==
    LET \* preprocess_mental_wellness_input, step 6
        mental_wellness_age_group(age) ==
            IF age <= 25 THEN 0 ELSE IF age <= 35 THEN 1 ELSE IF age <= 45 THEN 2 ELSE 3
    IN  LET df == DataFrame(rec)
            r  == rec.vals
            hd == mental_wellness_health_denominators(r)
        IN  IF ~(Range(MentalWellnessFields) \ {"gender", "occupation", "work_mode"}
                   \subseteq DOMAIN r)
            THEN Raise(df, "KeyError")
            ELSE Assign(df, MentalWellnessEngineered,
              [work_screen_ratio    |-> Q(r["work_screen_hours"], r["screen_time_hours"], 1),
               leisure_screen_ratio |-> Q(r["leisure_screen_hours"], r["screen_time_hours"], 1),
               sleep_efficiency     |-> Q(r["sleep_quality_1_5"], r["sleep_hours"], 1),
               work_life_balance    |-> Q(r["social_hours_per_week"], r["work_screen_hours"], 1),
               screen_sleep_ratio   |-> Q(r["screen_time_hours"], r["sleep_hours"], 1),
               health_score         |->
                   Sum(<<W(30, Q(r["sleep_quality_1_5"], hd["sleep_quality_1_5"], 0)),
                         W(40, Q(r["exercise_minutes_per_week"], hd["exercise_minutes_per_week"], 0)),
                         W(30, Q(r["social_hours_per_week"], hd["social_hours_per_week"], 0))>>),
               stress_productivity_interaction |->
                   Q(r["stress_level_0_10"] * (100 - r["productivity_0_100"]), 100, 0),
               age_group            |-> I(mental_wellness_age_group(r["age"])),
               high_screen_time     |-> B(r["screen_time_hours"] > mental_wellness_screen_threshold(r)),
               excessive_work_screen |-> B(r["work_screen_hours"] > 80),
               screen_time_squared  |-> I(r["screen_time_hours"] * r["screen_time_hours"]),
               stress_squared       |-> I(r["stress_level_0_10"] * r["stress_level_0_10"]),
               sleep_squared        |-> I(r["sleep_hours"] * r["sleep_hours"])])

AcademicEngineered ==
    <<"usage_intensity", "sleep_deficit", "severe_sleep_deficit",
      "mental_health_risk", "usage_sleep_ratio", "mental_sleep_score",
      "high_conflict", "age_group", "poor_academic_performance",
      "combined_risk_score", "usage_squared", "mental_health_squared",
      "usage_conflict_interaction", "uses_popular_platform", "has_relationship">>

\* preprocess_academic_input, step 1 (usage in tenths of an hour)
academic_usage_intensity(usage) ==
    IF usage <= 20 THEN 0 ELSE IF usage <= 40 THEN 1 ELSE IF usage <= 60 THEN 2 ELSE 3

\* preprocess_academic_input, step 3
academic_mental_health_risk(mh_score) ==
    IF mh_score <= 3 THEN 2 ELSE IF mh_score <= 6 THEN 1 ELSE 0

\* preprocess_academic_input, step 7
academic_age_group(age) ==
    IF age <= 19 THEN 0 ELSE IF age <= 21 THEN 1 ELSE 2

\* preprocess_academic_input, step 9: the four normalisation denominators
academic_risk_denominators(r) ==
    [avg_daily_usage_hours |-> 10, sleep_deficit |-> 8,
     mental_health_score |-> 10, conflicts_over_social_media |-> 5]

Renamed(k) ==
    LET \* the renaming preprocess_academic_input applies to the raw columns
        column_mapping ==
            [age |-> "Age", gender |-> "Gender", academic_level |-> "Academic_Level",
             country |-> "Country", most_used_platform |-> "Most_Used_Platform",
             avg_daily_usage_hours |-> "Avg_Daily_Usage_Hours",
             sleep_hours_per_night |-> "Sleep_Hours_Per_Night",
             mental_health_score |-> "Mental_Health_Score",
             conflicts_over_social_media |-> "Conflicts_Over_Social_Media",
             affects_academic_performance |-> "Affects_Academic_Performance",
             relationship_status |-> "Relationship_Status"]
    IN  IF k \in DOMAIN column_mapping THEN column_mapping[k] ELSE k

\* preprocess_academic_input, feature engineering and renaming
engineer_academic(rec) ==
    LET \* str.lower() on the category strings the model uses
        lower(s) ==
            CASE s = "Yes" -> "yes" [] s = "No" -> "no" [] s = "Single" -> "single"
              [] s = "In Relationship" -> "in relationship" [] OTHER -> s
    IN  LET \* df.rename(columns=column_mapping)
            rename(df) ==
                [cols |-> [i \in 1..Len(df.cols) |-> Renamed(df.cols[i])],
                 v    |-> [c \in {Renamed(k) : k \in DOMAIN df.v} |->
                             df.v[CHOOSE k \in DOMAIN df.v : Renamed(k) = c]],
                 err  |-> df.err]
        IN  LET popular_platforms == {"Instagram", "TikTok", "Snapchat", "Facebook", "Twitter"}
            IN  LET df == DataFrame(rec)
                    r  == rec.vals
                    rd == academic_risk_denominators(r)
                    deficit == Max(80 - r["sleep_hours_per_night"], 0)
                IN  IF ~(Range(AcademicImpactFields) \ {"gender", "academic_level", "country"}
                           \subseteq DOMAIN r)
                    THEN Raise(df, "KeyError")
                    ELSE rename(Assign(df, AcademicEngineered,
                      [usage_intensity      |-> I(academic_usage_intensity(r["avg_daily_usage_hours"])),
                       sleep_deficit        |-> I(deficit),
                       severe_sleep_deficit |-> B(r["sleep_hours_per_night"] < 60),
                       mental_health_risk   |-> I(academic_mental_health_risk(r["mental_health_score"])),
                       usage_sleep_ratio    |-> Q(r["avg_daily_usage_hours"], r["sleep_hours_per_night"], 1),
                       mental_sleep_score   |-> Q(r["mental_health_score"] * r["sleep_hours_per_night"], 10, 0),
                       high_conflict        |-> B(r["conflicts_over_social_media"] >= 4),
                       age_group            |-> I(academic_age_group(r["age"])),
                       poor_academic_performance |-> B(lower(r["affects_academic_performance"]) = "yes"),
                       combined_risk_score  |->
                           Sum(<<W(30, Q(r["avg_daily_usage_hours"], rd["avg_daily_usage_hours"], 0)),
                                 W(25, Q(deficit, rd["sleep_deficit"], 0)),
                                 W(25, Q(10 - r["mental_health_score"], rd["mental_health_score"], 0)),
                                 W(20, Q(r["conflicts_over_social_media"], rd["conflicts_over_social_media"], 0))>>),
                       usage_squared        |-> I(r["avg_daily_usage_hours"] * r["avg_daily_usage_hours"]),
                       mental_health_squared |-> I(r["mental_health_score"] * r["mental_health_score"]),
                       usage_conflict_interaction |->
                           I(r["avg_daily_usage_hours"] * r["conflicts_over_social_media"]),
                       uses_popular_platform |-> B(r["most_used_platform"] \in popular_platforms),
                       has_relationship     |-> B(lower(r["relationship_status"]) # "single")]))

(***************************************************************************)
(* utils/model_loader.py: StressPredictionPredictor._engineer_features     *)
(***************************************************************************)
StressEngineered ==
    <<"total_screen_ratio", "work_screen_ratio", "leisure_screen_ratio",
      "sleep_deficit", "sleep_efficiency", "poor_sleep_indicator",
      "work_life_balance", "screen_sleep_ratio", "excessive_work_screen",
      "exercise_hours_week", "low_exercise", "social_isolation",
      "social_exercise_score", "low_productivity", "productivity_wellness_gap",
      "age_group", "young_professional", "overall_health_score",
      "high_screen_time", "extreme_screen_time", "screen_time_squared",
      "sleep_hours_squared", "age_squared">>

\* df[col].max() over the rows of the frame at hand: the request's single row
ColumnMax(r, col) == r[col]

\* _engineer_features, "Overall health score": the four normalisation denominators
stress_health_denominators(r) ==
    [sleep_quality_1_5 |-> 5,
     exercise_minutes_per_week |-> ColumnMax(r, "exercise_minutes_per_week"),
     social_hours_per_week |-> ColumnMax(r, "social_hours_per_week"),
     mental_wellness_index_0_100 |-> 100]

\* _engineer_features, "Screen time categories": the high_screen_time threshold
stress_screen_threshold(r) == 80

_engineer_features(df) ==
    LET \* _engineer_features, "Age groups": pd.cut with the fixed edges
        stress_age_group(age) == cut(age, <<0, 25, 35, 45, 100>>, <<0, 1, 2, 3>>)
    IN  LET Abs(x) == IF x < 0 THEN -x ELSE x
        IN  LET r  == [k \in DOMAIN df.v |-> IF "int" \in DOMAIN df.v[k] THEN df.v[k].int ELSE 0]
                hd == stress_health_denominators(r)
            IN  IF ~(Range(StressPredictionFields) \ {"gender", "occupation", "work_mode"}
                       \subseteq DOMAIN r)
                THEN Raise(df, "KeyError")
                ELSE IF stress_age_group(r["age"]) = <<>>
                THEN Raise(df, "ValueError: cannot convert NaN to integer")
                ELSE Assign(df, StressEngineered,
                  [total_screen_ratio   |-> Q(r["screen_time_hours"], 24, 0),
                   work_screen_ratio    |-> Q(r["work_screen_hours"], r["screen_time_hours"], 1),
                   leisure_screen_ratio |-> Q(r["leisure_screen_hours"], r["screen_time_hours"], 1),
                   sleep_deficit        |-> I(Max(0, 80 - r["sleep_hours"])),
                   sleep_efficiency     |-> Q(r["sleep_quality_1_5"], r["sleep_hours"], 1),
                   poor_sleep_indicator |-> B(r["sleep_hours"] < 60 \/ r["sleep_quality_1_5"] < 2),
                   work_life_balance    |-> Q(r["social_hours_per_week"], r["work_screen_hours"], 1),
                   screen_sleep_ratio   |-> Q(r["screen_time_hours"], r["sleep_hours"], 1),
                   excessive_work_screen |-> B(r["work_screen_hours"] > 80),
                   exercise_hours_week  |-> Q(r["exercise_minutes_per_week"], 60, 0),
                   low_exercise         |-> B(r["exercise_minutes_per_week"] < 150),
                   social_isolation     |-> B(r["social_hours_per_week"] < 50),
                   social_exercise_score |->
                       Sum(<<W(50, Q(r["social_hours_per_week"], 1, 0)),
                             W(50, Q(r["exercise_minutes_per_week"], 60, 0))>>),
                   low_productivity     |-> B(r["productivity_0_100"] < 50),
                   productivity_wellness_gap |->
                       I(Abs(10 * r["productivity_0_100"] - r["mental_wellness_index_0_100"])),
                   age_group            |-> I(stress_age_group(r["age"])[1]),
                   young_professional   |-> B(r["age"] >= 25 /\ r["age"] <= 35),
                   overall_health_score |->
                       Sum(<<W(25, Q(r["sleep_quality_1_5"], hd["sleep_quality_1_5"], 0)),
                             W(25, Q(r["exercise_minutes_per_week"], hd["exercise_minutes_per_week"], 0)),
                             W(25, Q(r["social_hours_per_week"], hd["social_hours_per_week"], 0)),
                             W(25, Q(r["mental_wellness_index_0_100"], hd["mental_wellness_index_0_100"], 0))>>),
                   high_screen_time     |-> B(r["screen_time_hours"] > stress_screen_threshold(r)),
                   extreme_screen_time  |-> B(r["screen_time_hours"] > 120),
                   screen_time_squared  |-> I(r["screen_time_hours"] * r["screen_time_hours"]),
                   sleep_hours_squared  |-> I(r["sleep_hours"] * r["sleep_hours"]),
                   age_squared          |-> I(r["age"] * r["age"])])

(***************************************************************************)
(* The persisted artifacts of a run, as the training code writes them      *)
(***************************************************************************)
MentalWellnessCategorical == <<"gender", "occupation", "work_mode">>
AcademicCategorical ==
    <<"Gender", "Academic_Level", "Country", "Most_Used_Platform",
      "Affects_Academic_Performance", "Relationship_Status">>

\* The feature columns of the data set a run read (its CSV without the
\* identifier and the target).  Run 1 read the columns of the request schema.
\* The later runs read a data set with one more numeric column; their stress
\* data set has no occupation column and their academic one no Country
\* column, which preprocess_stress_data and the academic preprocess_data
\* accept ("if col in X.columns").
DatasetColumns(task, run) ==
    LET raw == CASE task = "mental_wellness" -> MentalWellnessFields
                 [] task = "academic_impact" ->
                      [i \in 1..Len(AcademicImpactFields) |-> Renamed(AcademicImpactFields[i])]
                 [] task = "stress_prediction" -> StressPredictionFields
    IN  IF run = 1 THEN raw
        ELSE CASE task = "mental_wellness" -> raw \o <<"caffeine_mg_per_day">>
               [] task = "academic_impact" ->
                    SelectSeq(raw, LAMBDA c : c # "Country") \o <<"Study_Hours_Per_Day">>
               [] task = "stress_prediction" -> SelectSeq(raw, LAMBDA c : c # "occupation")

\* X.columns.tolist() when the scaler is fitted: the raw columns, then the
\* engineered ones in the order the training transform creates them
FeatureNames(task, run) ==
    DatasetColumns(task, run) \o
        (CASE task = "mental_wellness" -> MentalWellnessEngineered
           [] task = "academic_impact" -> AcademicEngineered
           [] task = "stress_prediction" -> StressEngineered)

Categorical(task) ==
    IF task = "academic_impact" THEN AcademicCategorical ELSE MentalWellnessCategorical

\* the dict preprocess_data / preprocess_stress_data dumps: an encoder for
\* each categorical column the data set has
Bundle(task, run) ==
    LET \* LabelEncoder.classes_: the sorted categories the run's data set held
        Classes(col) ==
            CASE col \in {"gender", "Gender"} -> <<"Female", "Male", "Other">>
              [] col = "occupation" ->
                   IF run = 1 THEN <<"Software Engineer", "Student">>
                   ELSE <<"Doctor", "Software Engineer", "Student">>
              [] col = "work_mode" -> <<"Hybrid", "Office", "Remote">>
              [] col = "Academic_Level" -> <<"Bachelor", "Master", "PhD">>
              [] col = "Country" -> IF run = 1 THEN <<"India", "USA">> ELSE <<"Canada", "India", "USA">>
              [] col = "Most_Used_Platform" -> <<"Facebook", "Instagram", "TikTok">>
              [] col = "Affects_Academic_Performance" -> <<"No", "Yes">>
              [] col = "Relationship_Status" -> <<"In Relationship", "Single">>
    IN  [encoders      |-> [c \in Range(Categorical(task)) \cap Range(DatasetColumns(task, run))
                              |-> Classes(c)],
         feature_names |-> FeatureNames(task, run),
         imputer       |-> SelectSeq(FeatureNames(task, run),
                                     LAMBDA c : c \notin Range(Categorical(task))),
         scaler        |-> run]

\* LabelEncoder.transform of one value: <<code>>, or <<>> for ValueError
IndexOf(seq, x) ==
    IF \E i \in 1..Len(seq) : seq[i] = x
    THEN <<(CHOOSE i \in 1..Len(seq) : seq[i] = x) - 1>>
    ELSE <<>>

\* encoding loops without the except clause: an unseen value raises
EncodeRaising(df, encoders, cols) ==
    [cols |-> df.cols,
     v    |-> [c \in DOMAIN df.v |->
                 IF c \in Range(cols) /\ c \in DOMAIN encoders
                      /\ "str" \in DOMAIN df.v[c] /\ IndexOf(encoders[c], df.v[c].str) # <<>>
                 THEN I(IndexOf(encoders[c], df.v[c].str)[1])
                 ELSE df.v[c]],
     err  |-> IF \E c \in DOMAIN df.v \cap Range(cols) \cap DOMAIN encoders :
                    "str" \in DOMAIN df.v[c] /\ IndexOf(encoders[c], df.v[c].str) = <<>>
              THEN "ValueError: y contains previously unseen labels"
              ELSE df.err]

\* the encoding loops: every listed column the frame and the encoders have is
\* replaced by its code, by 0 when the value was not seen in training
Encode(df, encoders, cols) ==
    [cols |-> df.cols,
     v    |-> [c \in DOMAIN df.v |->
                 IF c \in Range(cols) /\ c \in DOMAIN encoders
                 THEN IF "str" \in DOMAIN df.v[c] /\ IndexOf(encoders[c], df.v[c].str) # <<>>
                      THEN I(IndexOf(encoders[c], df.v[c].str)[1])
                      ELSE I(0)
                 ELSE df.v[c]],
     err  |-> df.err]

\* the fill loop without the selection df[feature_names]
ReindexFillOnly(df, feature_names) ==
    [cols |-> df.cols \o SelectSeq(feature_names, LAMBDA c : c \notin Range(df.cols)),
     v    |-> [c \in Range(feature_names) \cup DOMAIN df.v |->
                 IF c \in DOMAIN df.v THEN df.v[c] ELSE I(0)],
     err  |-> df.err]

\* "for feature in feature_names: if feature not in df.columns: df[feature] = 0"
\* followed by df = df[feature_names]
Reindex(df, feature_names) ==
    [cols |-> feature_names,
     v    |-> [c \in Range(feature_names) |-> IF c \in DOMAIN df.v THEN df.v[c] ELSE I(0)],
     err  |-> df.err]

(***************************************************************************)
(* The single-record transforms and the predictors' predict methods.       *)
(* fault names the step in which the environment raises an exception       *)
(* ("none": no step does); steps lists the steps completed.                *)
(***************************************************************************)
Transformed(err, row, steps) == [err |-> err, row |-> row, steps |-> steps]

\* scaler.transform raises when the frame does not have the fitted number of columns
ScaleChecked(df, bundle, steps) ==
    LET \* scaler.transform: position i is centred and scaled with the statistics the
        \* run fitted for its i-th feature
        Scale ==
            [i \in 1..Len(df.cols) |->
                [fit |-> bundle.scaler, feature |-> bundle.feature_names[i], x |-> df.v[df.cols[i]]]]
    IN  IF df.err # "" THEN Transformed(df.err, <<>>, steps)
        ELSE IF Len(df.cols) # Len(bundle.feature_names)
        THEN Transformed("ValueError: X has a different number of features", <<>>, steps)
        ELSE Transformed("", Scale, Append(steps, "scale"))

\* utils/preprocessing.py preprocess_mental_wellness_input
preprocess_mental_wellness_input(rec, bundle, fault) ==
    LET \* the frame handed to the scaler by preprocess_mental_wellness_input
        mental_wellness_frame ==
            Reindex(Encode(engineer_mental_wellness(rec), bundle.encoders, MentalWellnessCategorical),
                    bundle.feature_names)
    IN  LET e == engineer_mental_wellness(rec)
        IN  IF fault = "engineer" THEN Transformed("Exception in engineer", <<>>, <<>>)
            ELSE IF e.err # "" THEN Transformed(e.err, <<>>, <<>>)
            ELSE IF fault = "encode" THEN Transformed("Exception in encode", <<>>, <<"engineer">>)
            ELSE IF fault = "reindex"
                 THEN Transformed("Exception in reindex", <<>>, <<"engineer", "encode">>)
            ELSE IF fault = "scale"
                 THEN Transformed("Exception in scale", <<>>, <<"engineer", "encode", "fill", "reindex">>)
            ELSE ScaleChecked(mental_wellness_frame, bundle,
                              <<"engineer", "encode", "fill", "reindex">>)

\* utils/preprocessing.py preprocess_academic_input
preprocess_academic_input(rec, bundle, fault) ==
    LET \* the frame handed to the scaler by preprocess_academic_input
        academic_frame ==
            Reindex(Encode(engineer_academic(rec), bundle.encoders, AcademicCategorical),
                    bundle.feature_names)
    IN  LET e == engineer_academic(rec)
        IN  IF fault = "engineer" THEN Transformed("Exception in engineer", <<>>, <<>>)
            ELSE IF e.err # "" THEN Transformed(e.err, <<>>, <<>>)
            ELSE IF fault = "encode" THEN Transformed("Exception in encode", <<>>, <<"engineer">>)
            ELSE IF fault = "reindex"
                 THEN Transformed("Exception in reindex", <<>>, <<"engineer", "encode">>)
            ELSE IF fault = "scale"
                 THEN Transformed("Exception in scale", <<>>, <<"engineer", "encode", "fill", "reindex">>)
            ELSE ScaleChecked(academic_frame, bundle,
                              <<"engineer", "encode", "fill", "reindex">>)

\* utils/preprocessing.py interpret_mental_wellness_score (score in tenths)
interpret_mental_wellness_score(score) ==
    IF score >= 800 THEN "Excellent mental wellness"
    ELSE IF score >= 700 THEN "Good mental wellness"
    ELSE IF score >= 600 THEN "Moderate mental wellness"
    ELSE IF score >= 500 THEN "Below average mental wellness"
    ELSE "Poor mental wellness - consider lifestyle changes"

\* utils/preprocessing.py interpret_addiction_score (score in tenths)
interpret_addiction_score(score) ==
    IF score >= 70 THEN "High social media addiction risk - significant academic impact likely"
    ELSE IF score >= 50 THEN "Moderate addiction risk - some academic impact"
    ELSE IF score >= 40 THEN "Low to moderate addiction risk"
    ELSE "Low addiction risk - healthy social media usage"

\* the metadata record a training run dumps to model_metadata.pkl
\* (R2 in ten-thousandths, MAE in hundredths)
Metadata(task, run) ==
    [best_model_name    |-> IF run = 1 THEN "Voting Ensemble" ELSE "Stacking Ensemble",
     best_model_results |-> [test_r2 |-> 9000 + run, test_mae |-> 300 - run],
     training_date      |-> run,
     feature_count      |-> Len(FeatureNames(task, run)),
     dataset_size       |-> 400 * run]

\* ModelLoader.get_model_info; the loader's metadata is never None once load_all returned
get_model_info(task, p) ==
    LET metadata == Metadata(task, p.metadata)
    IN  [model_type    |-> ModelType(task),
         model_name    |-> metadata.best_model_name,
         training_date |-> metadata.training_date,
         test_r2_score |-> metadata.best_model_results.test_r2,
         test_mae      |-> metadata.best_model_results.test_mae,
         feature_count |-> metadata.feature_count,
         dataset_size  |-> metadata.dataset_size]

RECURSIVE SumTerms(_, _)
SumTerms(ts, i) ==
    IF i > Len(ts) THEN 0 ELSE ts[i].w * (ts[i].num + ts[i].den) + SumTerms(ts, i + 1)

RECURSIVE RowDigest(_, _)
RowDigest(row, i) ==
    LET Digest(cell) ==
            IF "int" \in DOMAIN cell THEN cell.int
            ELSE IF "num" \in DOMAIN cell THEN cell.num + cell.den + cell.eps
            ELSE IF "terms" \in DOMAIN cell THEN SumTerms(cell.terms, 1)
            ELSE 1
    IN  IF i > Len(row) THEN 0
        ELSE ((i * (Digest(row[i].x) + row[i].fit)) % 10007) + RowDigest(row, i + 1)

\* model.predict(X)[0] of the regressor a run fitted: an opaque function of the
\* fitted parameters and of the row, position by position (result in tenths)
ModelPredict(task, run, row) ==
    LET d == 37 * run + RowDigest(row, 1)
    IN  CASE task = "mental_wellness" -> d % 1001
          [] task = "academic_impact" -> 20 + (d % 71)
          [] task = "stress_prediction" -> d % 101

Returned(result, X) == [raised |-> FALSE, result |-> result, row |-> X.row, steps |-> X.steps]

\* the result both ModelLoader-based predictors return from their try block
SuccessResult(prediction, interpretation, model_info, X) ==
    [prediction     |-> prediction,
     interpretation |-> interpretation,
     model_name     |-> model_info.model_name,
     confidence_metrics |-> [model_r2_score |-> model_info.test_r2_score,
                             model_mae      |-> model_info.test_mae],
     input_features_processed |-> Len(X.row),
     status         |-> "success"]

\* the result both ModelLoader-based predictors return from their except block
ErrorResult(e, model_info) ==
    [status |-> "error", error |-> e, model_info |-> model_info]

\* a predict whose try block covers the preprocessing only, so that a failure
\* of model.predict or of the interpretation leaves the method
MentalWellnessPredictor_predict_uncaught(p, rec, fault) ==
    LET X == preprocess_mental_wellness_input(rec, Bundle("mental_wellness", p.preprocessors), fault)
        prediction == ModelPredict("mental_wellness", p.model, X.row)
        model_info == get_model_info("mental_wellness", p)
    IN  IF X.err # "" THEN Returned(ErrorResult(X.err, model_info), X)
        ELSE IF fault \in {"predict", "interpret"}
             THEN [raised |-> TRUE, result |-> ErrorResult("Exception in " \o fault, model_info),
                   row |-> X.row, steps |-> X.steps]
        ELSE Returned(SuccessResult(prediction, interpret_mental_wellness_score(prediction),
                                    model_info, X),
                      Transformed("", X.row, X.steps \o <<"predict", "interpret">>))

\* MentalWellnessPredictor.predict
MentalWellnessPredictor_predict(p, rec, fault) ==
    LET X == preprocess_mental_wellness_input(rec, Bundle("mental_wellness", p.preprocessors), fault)
        prediction == ModelPredict("mental_wellness", p.model, X.row)
        model_info == get_model_info("mental_wellness", p)
    IN  IF X.err # "" THEN Returned(ErrorResult(X.err, model_info), X)
        ELSE IF fault \in {"predict", "interpret"}
             THEN Returned(ErrorResult("Exception in " \o fault, model_info), X)
        ELSE Returned(SuccessResult(prediction, interpret_mental_wellness_score(prediction),
                                    model_info, X),
                      Transformed("", X.row, X.steps \o <<"predict", "interpret">>))

\* AcademicImpactPredictor.predict
AcademicImpactPredictor_predict(p, rec, fault) ==
    LET X == preprocess_academic_input(rec, Bundle("academic_impact", p.preprocessors), fault)
        prediction == ModelPredict("academic_impact", p.model, X.row)
        model_info == get_model_info("academic_impact", p)
    IN  IF X.err # "" THEN Returned(ErrorResult(X.err, model_info), X)
        ELSE IF fault \in {"predict", "interpret"}
             THEN Returned(ErrorResult("Exception in " \o fault, model_info), X)
        ELSE Returned(SuccessResult(prediction, interpret_addiction_score(prediction),
                                    model_info, X),
                      Transformed("", X.row, X.steps \o <<"predict", "interpret">>))

(***************************************************************************)
(* utils/model_loader.py: StressPredictionPredictor.predict                *)
(***************************************************************************)
\* df.drop(columns=['user_id']) when the column is there
DropUserId(df) ==
    [cols |-> SelectSeq(df.cols, LAMBDA c : c # "user_id"),
     v    |-> [c \in DOMAIN df.v \ {"user_id"} |-> df.v[c]],
     err  |-> df.err]

\* df[numeric_cols] = imputer.transform(df[numeric_cols]).  SimpleImputer
\* works by position: it raises when the number of columns differs from the
\* fit, and, in the scikit-learn builds that validate feature names (check),
\* when the column names are not the fitted names in the fitted order.  NaN
\* at position i becomes the training median of the i-th fitted column.
Impute(df, bundle, check) ==
    LET \* numeric_cols = [col for col in df.columns if col not in categorical_cols]
        numeric_cols == SelectSeq(df.cols, LAMBDA c : c \notin Range(MentalWellnessCategorical))
    IN  LET nc == numeric_cols
        IN  IF Len(nc) # Len(bundle.imputer)
            THEN Raise(df, "ValueError: X has a different number of features")
            ELSE IF check /\ nc # bundle.imputer
            THEN Raise(df, "ValueError: feature names must be in the same order as they were in fit")
            ELSE [cols |-> df.cols,
                  v    |-> [c \in DOMAIN df.v |->
                              IF c \in Range(nc) /\ df.v[c] = NaN
                              THEN [median_of |-> bundle.imputer[CHOOSE i \in 1..Len(nc) : nc[i] = c]]
                              ELSE df.v[c]],
                  err  |-> df.err]

\* cut points compared with < in the place of <=
_categorize_stress_open(stress_level) ==
    IF stress_level < 30 THEN "Low"
    ELSE IF stress_level < 60 THEN "Moderate"
    ELSE IF stress_level < 80 THEN "High"
    ELSE "Very High"

\* _categorize_stress (level in tenths)
_categorize_stress(stress_level) ==
    IF stress_level <= 30 THEN "Low"
    ELSE IF stress_level <= 60 THEN "Moderate"
    ELSE IF stress_level <= 80 THEN "High"
    ELSE "Very High"

\* input_data.get(key, default)
get(vals, key, default) == IF key \in DOMAIN vals THEN vals[key] ELSE default

\* _get_recommendations with the stress rule applying from 6.0 on
_get_recommendations_inclusive(stress_level, input_data) ==
    LET recommendations ==
            (IF stress_level >= 60
             THEN <<"Consider stress management techniques like meditation or yoga">> ELSE <<>>)
         \o (IF get(input_data, "sleep_hours", 80) < 70
             THEN <<"Aim for 7-9 hours of sleep per night">> ELSE <<>>)
         \o (IF get(input_data, "screen_time_hours", 0) > 100
             THEN <<"Reduce screen time, especially before bed">> ELSE <<>>)
         \o (IF get(input_data, "exercise_minutes_per_week", 0) < 150
             THEN <<"Increase physical activity to at least 150 minutes per week">> ELSE <<>>)
         \o (IF get(input_data, "social_hours_per_week", 0) < 50
             THEN <<"Spend more time on social activities and connections">> ELSE <<>>)
    IN  IF recommendations = <<>>
        THEN <<"Maintain your current healthy lifestyle">>
        ELSE recommendations

\* _get_recommendations (level and hours in tenths)
_get_recommendations(stress_level, input_data) ==
    LET recommendations ==
            (IF stress_level > 60
             THEN <<"Consider stress management techniques like meditation or yoga">> ELSE <<>>)
         \o (IF get(input_data, "sleep_hours", 80) < 70
             THEN <<"Aim for 7-9 hours of sleep per night">> ELSE <<>>)
         \o (IF get(input_data, "screen_time_hours", 0) > 100
             THEN <<"Reduce screen time, especially before bed">> ELSE <<>>)
         \o (IF get(input_data, "exercise_minutes_per_week", 0) < 150
             THEN <<"Increase physical activity to at least 150 minutes per week">> ELSE <<>>)
         \o (IF get(input_data, "social_hours_per_week", 0) < 50
             THEN <<"Spend more time on social activities and connections">> ELSE <<>>)
    IN  IF recommendations = <<>>
        THEN <<"Maintain your current healthy lifestyle">>
        ELSE recommendations

\* an interpretation whose High band ends at 7
_interpret_stress_high_to_7(stress_level) ==
    IF stress_level <= 30 THEN "Low stress - You're managing well with minimal stress"
    ELSE IF stress_level <= 60 THEN "Moderate stress - Normal stress levels, manageable"
    ELSE IF stress_level <= 70
         THEN "High stress - Elevated stress, consider stress management techniques"
    ELSE "Very high stress - Critical stress levels, professional help recommended"

\* _interpret_stress (level in tenths)
_interpret_stress(stress_level) ==
    IF stress_level <= 30 THEN "Low stress - You're managing well with minimal stress"
    ELSE IF stress_level <= 60 THEN "Moderate stress - Normal stress levels, manageable"
    ELSE IF stress_level <= 80
         THEN "High stress - Elevated stress, consider stress management techniques"
    ELSE "Very high stress - Critical stress levels, professional help recommended"

\* the result StressPredictionPredictor.predict returns from its try block
StressSuccessResult(p, prediction, input_data) ==
    LET \* type(self.model).__name__ of the regressor a run selected
        ModelClassName(run) == IF run = 1 THEN "VotingRegressor" ELSE "GradientBoostingRegressor"
    IN  [prediction      |-> prediction,
         interpretation  |-> _interpret_stress(prediction),
         model_name      |-> ModelClassName(p.model),
         stress_category |-> _categorize_stress(prediction),
         recommendations |-> _get_recommendations(prediction, input_data),
         status          |-> "success"]

\* the result StressPredictionPredictor.predict returns from its except block
StressErrorResult(e) == [status |-> "error", error |-> e]

\* the frame StressPredictionPredictor.predict hands to the scaler; the bare
\* except around encoder.transform turns any failure of it into the code 0
stress_imputed(rec, bundle, check) ==
    Impute(_engineer_features(DropUserId(DataFrame(rec))), bundle, check)

\* the try block of StressPredictionPredictor.predict up to scaler.transform
stress_transform(rec, bundle, fault, check) ==
    LET stress_frame ==
            Reindex(Encode(stress_imputed(rec, bundle, check), bundle.encoders,
                           MentalWellnessCategorical),
                    bundle.feature_names)
    IN  LET e == _engineer_features(DropUserId(DataFrame(rec)))
            m == stress_imputed(rec, bundle, check)
        IN  IF fault = "engineer" THEN Transformed("Exception in engineer", <<>>, <<>>)
            ELSE IF e.err # "" THEN Transformed(e.err, <<>>, <<>>)
            ELSE IF fault = "impute" THEN Transformed("Exception in impute", <<>>, <<"engineer">>)
            ELSE IF m.err # "" THEN Transformed(m.err, <<>>, <<"engineer">>)
            ELSE IF fault = "reindex"
                 THEN Transformed("Exception in reindex", <<>>, <<"engineer", "impute", "encode">>)
            ELSE IF fault = "scale"
                 THEN Transformed("Exception in scale", <<>>,
                                  <<"engineer", "impute", "encode", "fill", "reindex">>)
            ELSE ScaleChecked(stress_frame, bundle,
                              <<"engineer", "impute", "encode", "fill", "reindex">>)

\* StressPredictionPredictor.predict
StressPredictionPredictor_predict(p, rec, fault, check) ==
    LET X == stress_transform(rec, Bundle("stress_prediction", p.preprocessors), fault, check)
        prediction == ModelPredict("stress_prediction", p.model, X.row)
    IN  IF X.err # "" THEN Returned(StressErrorResult(X.err), X)
        ELSE IF fault \in {"predict", "interpret"}
             THEN Returned(StressErrorResult("Exception in " \o fault), X)
        ELSE Returned(StressSuccessResult(p, prediction, rec.vals),
                      Transformed("", X.row, X.steps \o <<"predict", "interpret">>))

\* a predict that fits the scaler anew on the request (fit_transform in the
\* place of transform), leaving other statistics in the predictor
PredictorAfterRefit(task, p, d) ==
    [p EXCEPT !.preprocessors = (p.preprocessors % MaxRun) + 1]

\* The predictor object after a predict call.  predict assigns no attribute
\* of the predictor or of its loader; the only assignment it can reach is
\* the lazy load in ModelLoader.get_model_info, taken when metadata is None.
PredictorAfter(task, p, d) ==
    IF task # "stress_prediction" /\ p.metadata = Absent
    THEN [p EXCEPT !.metadata = d[Path(ModelType(task), "model_metadata.pkl")]]
    ELSE p

\* predictor.predict of the task's predictor
Predict(task, p, rec, fault, check) ==
    CASE task = "mental_wellness" -> MentalWellnessPredictor_predict(p, rec, fault)
      [] task = "academic_impact" -> AcademicImpactPredictor_predict(p, rec, fault)
      [] task = "stress_prediction" -> StressPredictionPredictor_predict(p, rec, fault, check)

(***************************************************************************)
(* Request bodies: the documented example of each task, the example with   *)
(* one field moved to or across a schema bound, given an unlisted          *)
(* category, or left out, and a few records with several zero fields       *)
(***************************************************************************)
Reverse(seq) == [i \in 1..Len(seq) |-> seq[Len(seq) + 1 - i]]

\* the keys of vals in the order of the declared fields
Ordered(task, vals) == Rec(SelectSeq(Fields(task), LAMBDA k : k \in DOMAIN vals), vals)

Bodies(task) ==
    LET Healthy(vals) ==
            [vals EXCEPT !["sleep_hours"] = 80, !["exercise_minutes_per_week"] = 200]
    IN  LET ZeroScreen(vals) ==
                [vals EXCEPT !["screen_time_hours"] = 0, !["work_screen_hours"] = 0,
                             !["leisure_screen_hours"] = 0]
        IN  LET \* values probing one numeric field: around its bounds, and the values the tests send
                Probe(f) ==
                    LET b == Bounds(task)[f]
                        u == Unit(f)
                    IN  {b[1] * u - 1, b[1] * u}
                        \cup (IF Len(b) = 2 THEN {b[2] * u, b[2] * u + 1} ELSE {b[1] * u + 3000})
                        \cup (CASE f = "age" -> {26, 150}
                                [] f = "screen_time_hours" -> {-50, 130}
                                [] f = "stress_level_0_10" -> {15}
                                [] f = "avg_daily_usage_hours" -> {20, 70}
                                [] OTHER -> {})
            IN  LET Without(f, k) == [x \in DOMAIN f \ {k} |-> f[x]]
                IN  LET ex == Example(task)
                    IN  {ex}
                        \cup UNION {{[ex EXCEPT ![f] = v] : v \in Probe(f)} : f \in DOMAIN Bounds(task)}
                        \cup {[ex EXCEPT ![f] = "Unlisted"] : f \in DOMAIN ex \cap StrFields}
                        \cup {Without(ex, f) : f \in DOMAIN ex}
                        \cup (IF task = "academic_impact" THEN {} ELSE {ZeroScreen(ex), Healthy(ex)})

\* JSON bodies: keys in the declared order, and the example also in reverse order
HttpBodies(task) ==
    {Ordered(task, vals) : vals \in Bodies(task)}
    \cup {Rec(Reverse(Fields(task)), Example(task))}

(***************************************************************************)
(* api/main.py: the three POST /predict handlers                           *)
(***************************************************************************)
NoRequest == [task |-> "none", body |-> Rec(<<>>, <<>>), fault |-> "none"]
NoResponse == [code |-> 0, body |-> [none |-> TRUE]]

\* the try block of a handler: the registry check, input_data.dict(), predict
TryBlock(task, reg, body, fault, check) ==
    LET NotLoadedDetail ==
            CASE task = "mental_wellness" -> "Mental Wellness model not loaded"
              [] task = "academic_impact" -> "Academic Impact model not loaded"
              [] task = "stress_prediction" ->
                   "Stress Prediction model not loaded. Please run training first: ./run_stress_train.ps1"
    IN  IF ~Loaded(reg, task)
        THEN [raised |-> "HTTPException", status_code |-> 503, detail |-> NotLoadedDetail,
              calls |-> <<>>]
        ELSE LET out == Predict(task, reg[task][1], dict(task, body), fault, check)
             IN  [raised |-> IF out.raised THEN "Exception" ELSE "",
                  status_code |-> 200, detail |-> "", result |-> out.result,
                  calls |-> <<[task |-> task, input |-> dict(task, body), out |-> out]>>]

\* the except clauses of a handler: ValidationError -> 422, and
\* "except Exception" -> 500, which also catches the HTTPException raised in
\* the try block (str(HTTPException) is "<status_code>: <detail>")
ExceptClauses(t) ==
    IF t.raised = "" THEN [code |-> 200, body |-> t.result]
    ELSE IF t.raised = "ValidationError" THEN [code |-> 422, body |-> [detail |-> t.detail]]
    ELSE IF t.raised = "HTTPException"
         THEN [code |-> 500,
               body |-> [detail |-> "Prediction error: " \o ToString(t.status_code)
                                      \o ": " \o t.detail]]
    ELSE [code |-> 500, body |-> [detail |-> "Prediction error: " \o t.detail]]

\* FastAPI validates the body against the handler's input model before the
\* handler runs and answers 422 itself when it does not validate
Endpoint(task, body, fault) ==
    /\ started
    /\ req = NoRequest
    /\ req' = [task |-> task, body |-> body, fault |-> fault]
    /\ IF ~Valid(task, body)
       THEN /\ resp' = [code |-> 422, body |-> [detail |-> "validation error"]]
            /\ calls' = <<>>
       ELSE LET t == TryBlock(task, registry, body, fault, name_check)
            IN  /\ resp' = ExceptClauses(t)
                /\ calls' = t.calls
    /\ registry' = IF Valid(task, body) /\ Loaded(registry, task)
                   THEN [registry EXCEPT ![task] = <<PredictorAfter(task, registry[task][1], disk)>>]
                   ELSE registry
    /\ UNCHANGED <<disk, started, loads, name_check, pureVars, train>>

\* the faults are injected into requests carrying the documented example
RequestFaults(task, body) ==
    LET Faults == {"none", "engineer", "impute", "encode", "reindex", "scale", "predict", "interpret"}
    IN  IF body.vals = Example(task) /\ body.keys = Fields(task) THEN Faults ELSE {"none"}

predict_mental_wellness ==
    \E body \in HttpBodies("mental_wellness") :
        \E fault \in RequestFaults("mental_wellness", body) :
            Endpoint("mental_wellness", body, fault)

predict_academic_impact ==
    \E body \in HttpBodies("academic_impact") :
        \E fault \in RequestFaults("academic_impact", body) :
            Endpoint("academic_impact", body, fault)

predict_stress_level ==
    \E body \in HttpBodies("stress_prediction") :
        \E fault \in RequestFaults("stress_prediction", body) :
            Endpoint("stress_prediction", body, fault)

\* a health check that reports an outage when no predictor is loaded
health_check_needs_model ==
    /\ req = NoRequest
    /\ req' = [task |-> "health", body |-> Rec(<<>>, <<>>), fault |-> "none"]
    /\ resp' = IF \E t \in Tasks : Loaded(registry, t)
               THEN [code |-> 200,
                     body |-> [status |-> "healthy",
                               models |-> [t \in Tasks |->
                                             IF Loaded(registry, t) THEN "ready" ELSE "not ready"]]]
               ELSE [code |-> 503, body |-> [detail |-> "no model loaded"]]
    /\ calls' = <<>>
    /\ UNCHANGED <<disk, registry, started, loads, name_check, pureVars, train>>

\* GET /health (the test client calls it without running the start-up event,
\* a server calls it after): the handler reads the three module globals
health_check ==
    /\ req = NoRequest
    /\ req' = [task |-> "health", body |-> Rec(<<>>, <<>>), fault |-> "none"]
    /\ resp' = [code |-> 200,
                body |-> [status |-> "healthy",
                          models |-> [t \in Tasks |->
                                        IF Loaded(registry, t) THEN "ready" ELSE "not ready"]]]
    /\ calls' = <<>>
    /\ UNCHANGED <<disk, registry, started, loads, name_check, pureVars, train>>

\* the handler has returned and the response has gone out: nothing of the
\* request stays behind in the process
send_response ==
    /\ req # NoRequest
    /\ req' = NoRequest
    /\ resp' = NoResponse
    /\ calls' = <<>>
    /\ UNCHANGED <<disk, registry, started, loads, name_check, pureVars, train>>

(***************************************************************************)
(* The serving process                                                     *)
(***************************************************************************)
TaskDisks(task) ==
    LET \* artifact directories a serving process may find: every task's files all
        \* written by one run, or written by run 1 with one file absent or unreadable
        Damaged ==
            {[f \in ArtifactFiles(task) |-> IF f = g THEN s ELSE 1] :
                g \in ArtifactFiles(task), s \in {Absent, Corrupt}}
    IN  {[f \in ArtifactFiles(task) |-> r] : r \in 1..MaxRun} \cup Damaged

NoInput == [field |-> "none", value |-> 0]
NoTraining ==
    [task |-> "none", id |-> 0, stage |-> "idle", done |-> <<>>, before |-> <<>>, at |-> "none"]

Init ==
    LET InitialDisks ==
            {w @@ a @@ st : w \in TaskDisks("mental_wellness"), a \in TaskDisks("academic_impact"),
                            st \in TaskDisks("stress_prediction")}
    IN  /\ disk \in InitialDisks
        /\ registry = [t \in Tasks |-> None]
        /\ started = FALSE
        /\ loads = 0
        /\ req = NoRequest
        /\ resp = NoResponse
        /\ calls = <<>>
        /\ name_check \in BOOLEAN
        /\ fin = NoInput
        /\ fout = <<>>
        /\ train = NoTraining

Next ==
    \/ startup_event
    \/ predict_mental_wellness
    \/ predict_academic_impact
    \/ predict_stress_level
    \/ health_check
    \/ send_response

Spec == Init /\ [][Next]_vars

(***************************************************************************)
(* Claims about start-up and the prediction endpoints                      *)
(***************************************************************************)
PredictTasks == {"mental_wellness", "academic_impact"}

\* C1: at start-up the three task variants are loaded independently:
\* whichever single variant fails to load (one of its files is missing or
\* unreadable), the other two, whose artifacts are present, are loaded and
\* only the failing variant is not.
C1_IndependentLoading ==
    started =>
        \A t \in Tasks :
            (~Complete(disk, t) /\ \A u \in Tasks \ {t} : Complete(disk, u))
                => (~Loaded(registry, t) /\ \A u \in Tasks \ {t} : Loaded(registry, u))

\* the normalisation denominators and thresholds the task's serving transform uses
ServingConstants(task, vals) ==
    CASE task = "mental_wellness" ->
           [denominators |-> mental_wellness_health_denominators(vals),
            threshold    |-> mental_wellness_screen_threshold(vals)]
      [] task = "academic_impact" ->
           [denominators |-> academic_risk_denominators(vals), threshold |-> 0]
      [] task = "stress_prediction" ->
           [denominators |-> stress_health_denominators(vals),
            threshold    |-> stress_screen_threshold(vals)]

\* C5: at serving time every normalisation denominator and every threshold
\* of the single-record transform is a fixed constant: it is the same for
\* every request of the task, whatever the request's own values are.
C5_FixedServingConstants ==
    \A i \in 1..Len(calls) :
        ServingConstants(calls[i].task, calls[i].input.vals)
            = ServingConstants(calls[i].task, Example(calls[i].task))

\* C6: while a task's predictor is not loaded, a (schema-valid) POST to the
\* task's predict endpoint is answered with 503 and predict is not called.
C6_UnavailableIs503 ==
    (req.task \in Tasks /\ Valid(req.task, req.body) /\ ~Loaded(registry, req.task))
        => (resp.code = 503 /\ calls = <<>>)

\* C7: a failure in any step of predict (engineering, imputation, encoding,
\* reindexing, scaling, model.predict, interpretation) is returned as a
\* result with status 'error' and an error message; no exception leaves
\* predict, so the handler answers 200 with that result.
C7_PredictCatchesFailures ==
    LET \* the step named by the fault exists in the task's predict and its
        \* exception is not swallowed inside it
        FaultRaises(task, fault) ==
            /\ fault # "none"
            /\ task \in PredictTasks => fault # "impute"
            /\ task = "stress_prediction" => fault # "encode"
    IN  \A i \in 1..Len(calls) :
            /\ ~calls[i].out.raised
            /\ FaultRaises(calls[i].task, req.fault) =>
                  /\ calls[i].out.result.status = "error"
                  /\ "error" \in DOMAIN calls[i].out.result
                  /\ resp = [code |-> 200, body |-> calls[i].out.result]

C7_Witness ==
    /\ req.task = "stress_prediction" /\ req.fault = "scale"
    /\ Len(calls) = 1 /\ resp.code = 200 /\ resp.body.status = "error"

\* C8: a wellness or academic request that violates its schema (a field out
\* of range or a required field missing) is answered with 422 and predict
\* is never invoked for it, whatever the registry holds.
C8_SchemaViolationIs422 ==
    LET \* the body misses a declared field or has a numeric field outside the
        \* range the schema declares for it
        ViolatesSchema(task, body) ==
            \E f \in Range(Fields(task)) :
                \/ f \notin DOMAIN body.vals
                \/ /\ f \in DOMAIN Bounds(task)
                   /\ \/ body.vals[f] < Bounds(task)[f][1] * Unit(f)
                      \/ Len(Bounds(task)[f]) = 2 /\ body.vals[f] > Bounds(task)[f][2] * Unit(f)
    IN  (req.task \in PredictTasks /\ ViolatesSchema(req.task, req.body))
            => (resp.code = 422 /\ calls = <<>>)

C8_Witness ==
    /\ req.task = "mental_wellness" /\ Loaded(registry, "mental_wellness")
    /\ "age" \in DOMAIN req.body.vals /\ req.body.vals["age"] = 150
    /\ resp.code = 422 /\ calls = <<>>

\* C9: with the task's model loaded, a schema-valid POST to
\* /predict/mental-wellness or /predict/academic-impact is answered with 200
\* and a body that has the key model_info.
C9_ValidRequestHasModelInfo ==
    (req.task \in PredictTasks /\ Valid(req.task, req.body) /\ Loaded(registry, req.task))
        => (resp.code = 200 /\ "model_info" \in DOMAIN resp.body)

\* C10: every successful prediction result of each of the three tasks
\* carries the prediction, an interpretation, status 'success', the model
\* name, and the R2 and MAE of the task's persisted metadata.
C10_SuccessCarriesMetadata ==
    \A i \in 1..Len(calls) :
        calls[i].out.result.status = "success" =>
            /\ {"prediction", "interpretation", "model_name", "confidence_metrics"}
                   \subseteq DOMAIN calls[i].out.result
            /\ calls[i].out.result.confidence_metrics \in
                   {[model_r2_score |-> Metadata(calls[i].task, r).best_model_results.test_r2,
                     model_mae      |-> Metadata(calls[i].task, r).best_model_results.test_mae] :
                        r \in 1..MaxRun}

(***************************************************************************)
(* predict called directly with one record under two key orders            *)
(***************************************************************************)
DirectRecords(task) ==
    {Example(task), [Example(task) EXCEPT !["age"] = 26],
     [Example(task) EXCEPT !["gender"] = "Unlisted"]}

Call(task, reg, rec, check) ==
    [task |-> task, input |-> rec, out |-> Predict(task, reg[task][1], rec, "none", check)]

predict_reordered ==
    LET KeyOrders(task) ==
            LET \* the categorical keys moved behind the numeric ones
                CategoricalLast ==
                    SelectSeq(Fields(task), LAMBDA k : k \notin StrFields)
                        \o SelectSeq(Fields(task), LAMBDA k : k \in StrFields)
            IN  {Fields(task), Reverse(Fields(task)), CategoricalLast}
    IN  /\ started /\ req = NoRequest /\ calls = <<>>
        /\ \E task \in Tasks :
             \E vals \in DirectRecords(task) :
               \E o1 \in KeyOrders(task) :
                 \E o2 \in KeyOrders(task) \ {o1} :
                    /\ Loaded(registry, task)
                    /\ calls' = <<Call(task, registry, Rec(o1, vals), name_check),
                                  Call(task, registry, Rec(o2, vals), name_check)>>
        /\ UNCHANGED <<disk, registry, started, loads, req, resp, name_check, pureVars, train>>

discard_results ==
    /\ req = NoRequest /\ calls # <<>>
    /\ calls' = <<>>
    /\ UNCHANGED <<disk, registry, started, loads, req, resp, name_check, pureVars, train>>

OrderNext ==
    \/ startup_event
    \/ predict_reordered
    \/ discard_results

OrderSpec == Init /\ [][OrderNext]_vars

\* C3: for each task and a fixed loaded bundle, two raw records with the
\* same field/value pairs in a different key order give the same scaled
\* feature row and the same prediction result; neither fails where the
\* other succeeds.
C3_KeyOrderInvariance ==
    (Len(calls) = 2 /\ req = NoRequest) =>
        /\ calls[1].out.row = calls[2].out.row
        /\ calls[1].out.result = calls[2].out.result

(***************************************************************************)
(* academic/preprocess.py: the training-time bucket features               *)
(***************************************************************************)
\* the bucket the training transform gives a raw value: <<>> when pd.cut
\* yields NaN (astype(int) then raises)
TrainBucket(field, value) ==
    LET \* pd.cut(df['Age'], bins=[17, 19, 21, 25], labels=[0, 1, 2])
        train_academic_age_group(age) == cut(age, <<17, 19, 21, 25>>, <<0, 1, 2>>)
    IN  LET \* pd.cut(df['Mental_Health_Score'], bins=[0, 3, 6, 10], labels=[2, 1, 0])
            train_mental_health_risk(mh_score) == cut(mh_score, <<0, 3, 6, 10>>, <<2, 1, 0>>)
        IN  LET \* pd.cut(df['Avg_Daily_Usage_Hours'], bins=[0, 2, 4, 6, 24], labels=[0, 1, 2, 3])
                train_usage_intensity(usage) == cut(usage, <<0, 20, 40, 60, 240>>, <<0, 1, 2, 3>>)
            IN  CASE field = "avg_daily_usage_hours" -> train_usage_intensity(value)
                  [] field = "mental_health_score" -> train_mental_health_risk(value)
                  [] field = "age" -> train_academic_age_group(value)

Quiet ==
    /\ disk = [f \in AllFiles |-> 1]
    /\ registry = [t \in Tasks |-> None]
    /\ started = FALSE
    /\ loads = 0
    /\ req = NoRequest
    /\ resp = NoResponse
    /\ calls = <<>>
    /\ name_check = TRUE
    /\ train = NoTraining

BucketInit ==
    LET \* every value the academic schema accepts for the three bucketed fields
        \* (hours in tenths)
        AcademicBucketInputs ==
            {[field |-> f, value |-> v] :
                f \in {"age", "avg_daily_usage_hours", "mental_health_score"},
                v \in 0..(24 * 10)}
            \cap {i \in [field : STRING, value : Int] :
                    InBounds(AcademicImpactBounds, i.field, i.value)}
    IN  /\ Quiet
        /\ fin \in AcademicBucketInputs
        /\ fout = <<>>

bucket_academic ==
    LET \* the bucket preprocess_academic_input gives the same raw value
        ServeBucket(field, value) ==
            CASE field = "avg_daily_usage_hours" -> academic_usage_intensity(value)
              [] field = "mental_health_score" -> academic_mental_health_risk(value)
              [] field = "age" -> academic_age_group(value)
    IN  /\ fout = <<>>
        /\ fin.field \in {"age", "avg_daily_usage_hours", "mental_health_score"}
        /\ fout' = <<[train |-> TrainBucket(fin.field, fin.value),
                      serve |-> <<ServeBucket(fin.field, fin.value)>>]>>
        /\ UNCHANGED <<servVars, fin, train>>

BucketNext == bucket_academic

BucketSpec == BucketInit /\ [][BucketNext]_vars

\* C4: for every value the academic schema accepts (age 17..30, usage 0..24,
\* mental_health_score 0..10) the training transform yields a defined
\* bucket, and the serving-time bucket equals it.
C4_AcademicBucketsAgree ==
    fout # <<>> => (fout[1].train # <<>> /\ fout[1].train = fout[1].serve)

(***************************************************************************)
(* The training pipelines: mental_health/train.py train_model and          *)
(* mental_health/train_stress.py train_stress_models.  A run goes through  *)
(* its stages in the order of the code; a stage that raises ends the run   *)
(* (neither function catches anything).                                    *)
(***************************************************************************)
\* train_stress_models: STEP 1 .. STEP 9
train_stress_models_stages ==
    <<"preprocess", "train_candidates", "tune", "ensemble", "select_best",
      "feature_importance", "save", "visualize", "report">>

Stages(task) ==
    LET \* train_model: STEP 1 .. STEP 9
        train_model_stages ==
            <<"preprocess", "train_candidates", "tune", "ensemble", "select_best",
              "cross_validate", "visualize", "save", "report">>
    IN  IF task = "stress_prediction" THEN train_stress_models_stages ELSE train_model_stages

\* the artifact files a stage dumps, in the order of its joblib.dump calls
\* (the tuned models train_model also dumps are not read by the service and
\* are left out).  preprocess_data and preprocess_stress_data dump the
\* bundle as their last statement before returning.
StageWrites(task, stage) ==
    CASE task = "mental_wellness" /\ stage = "preprocess" ->
           <<Path("mental_health", "preprocessors.pkl")>>
      [] task = "mental_wellness" /\ stage = "save" ->
           <<Path("mental_health", "best_model.pkl"),
             Path("mental_health", "feature_names.pkl"),
             Path("mental_health", "model_metadata.pkl")>>
      [] task = "stress_prediction" /\ stage = "preprocess" -> <<StressPreprocessorPath>>
      [] task = "stress_prediction" /\ stage = "save" -> <<StressModelPath>>
      [] OTHER -> <<>>

\* the disk after run id has dumped the first k of the files
Dump(d, files, k, id) ==
    [f \in DOMAIN d |-> IF \E i \in 1..k : files[i] = f THEN id ELSE d[f]]

Running(t) == t.stage \notin {"idle", "done", "failed"}

\* python train.py / python train_stress.py
start_training ==
    LET TrainTasks == {"mental_wellness", "stress_prediction"}
    IN  /\ ~Running(train)
        /\ train.id < MaxRun
        /\ \E task \in TrainTasks :
             train' = [task |-> task, id |-> train.id + 1, stage |-> Stages(task)[1],
                       done |-> <<>>, before |-> disk, at |-> "none"]
        /\ UNCHANGED <<disk, registry, started, loads, req, resp, calls, name_check, pureVars>>

\* the stage runs to its end
stage_completes ==
    LET NextStage(task, stage) ==
            LET st == Stages(task)
                i  == CHOOSE j \in 1..Len(st) : st[j] = stage
            IN  IF i = Len(st) THEN "done" ELSE st[i + 1]
    IN  /\ Running(train)
        /\ disk' = Dump(disk, StageWrites(train.task, train.stage),
                        Len(StageWrites(train.task, train.stage)), train.id)
        /\ train' = [train EXCEPT !.stage = NextStage(train.task, train.stage),
                                  !.done = Append(train.done, train.stage)]
        /\ UNCHANGED <<registry, started, loads, req, resp, calls, name_check, pureVars>>

\* the stage raises: the exception leaves the training function.  A stage
\* whose dump is its last statement has dumped nothing; the save stage may
\* have dumped some of its files already.
stage_raises ==
    /\ Running(train)
    /\ \E k \in 0..(Len(StageWrites(train.task, train.stage)) - 1) \cup {0} :
         disk' = Dump(disk, StageWrites(train.task, train.stage), k, train.id)
    /\ train' = [train EXCEPT !.stage = "failed", !.at = train.stage]
    /\ UNCHANGED <<registry, started, loads, req, resp, calls, name_check, pureVars>>

TrainInit ==
    /\ disk = [f \in AllFiles |-> Absent]
    /\ registry = [t \in Tasks |-> None]
    /\ started = FALSE
    /\ loads = 0
    /\ req = NoRequest
    /\ resp = NoResponse
    /\ calls = <<>>
    /\ name_check = TRUE
    /\ fin = NoInput
    /\ fout = <<>>
    /\ train = NoTraining

TrainNext ==
    \/ start_training
    \/ stage_completes
    \/ stage_raises

TrainSpec == TrainInit /\ [][TrainNext]_vars

\* C2: a training run persists nothing unless every stage completes: when
\* preprocessing, candidate training, tuning, ensembling, selection or
\* cross-validation fails, the run has written or overwritten no artifact
\* file, so the disk still holds what the previous runs left.
C2_NoPartialPersistence ==
    (train.stage = "failed"
       /\ train.at \in {"preprocess", "train_candidates", "tune", "ensemble",
                        "select_best", "cross_validate"})
        => disk = train.before

(***************************************************************************)
(* Claims about the single-record transform                                *)
(***************************************************************************)
\* the name a raw field has in the bundle (the academic transform renames)
BundleColumn(task, field) == IF task = "academic_impact" THEN Renamed(field) ELSE field

\* the bundle the call's predictor holds
CallBundle(c) == Bundle(c.task, registry[c.task][1].preprocessors)

\* the value the scaled row carries for a feature
RowValue(row, feature) == row[CHOOSE i \in 1..Len(row) : row[i].feature = feature].x

\* C11: in all three variants a categorical value the bundle's encoder never
\* saw does not fail the request: the column is encoded as 0, the remaining
\* steps run and the result is a successful numeric prediction.
C11_UnseenCategoryEncodedZero ==
    LET \* the categorical fields of the call's record whose value the bundle's
        \* encoder did not see in training
        UnseenFields(c) ==
            {f \in DOMAIN c.input.vals \cap StrFields :
                /\ BundleColumn(c.task, f) \in DOMAIN CallBundle(c).encoders
                /\ IndexOf(CallBundle(c).encoders[BundleColumn(c.task, f)], c.input.vals[f]) = <<>>}
    IN  \A i \in 1..Len(calls) :
            (Loaded(registry, calls[i].task) /\ req.fault = "none" /\ UnseenFields(calls[i]) # {}) =>
                /\ calls[i].out.result.status = "success"
                /\ calls[i].out.result.prediction \in Int
                /\ "predict" \in Range(calls[i].out.steps)
                /\ \A f \in UnseenFields(calls[i]) :
                     RowValue(calls[i].out.row, BundleColumn(calls[i].task, f)) = I(0)

C11_Witness ==
    /\ Len(calls) = 1 /\ calls[1].task = "stress_prediction"
    /\ calls[1].input.vals["occupation"] = "Unlisted"
    /\ calls[1].out.result.status = "success"
    /\ resp.code = 200

CallOn(task, p, rec, check) ==
    [task |-> task, input |-> rec, out |-> Predict(task, p, rec, "none", check)]

RepeatRecords(task) ==
    DirectRecords(task)
        \cup (IF task = "academic_impact" THEN {}
              ELSE {[Example(task) EXCEPT !["exercise_minutes_per_week"] = 0]})

\* predictor.predict(record) twice in a row on the registry's predictor
predict_repeated ==
    /\ started /\ req = NoRequest /\ calls = <<>>
    /\ \E task \in Tasks :
         \E vals \in RepeatRecords(task) :
            /\ Loaded(registry, task)
            /\ LET rec == Rec(Fields(task), vals)
                   p1  == registry[task][1]
                   p2  == PredictorAfter(task, p1, disk)
               IN  /\ calls' = <<CallOn(task, p1, rec, name_check),
                                 CallOn(task, p2, rec, name_check)>>
                   /\ registry' = [registry EXCEPT ![task] = <<PredictorAfter(task, p2, disk)>>]
    /\ UNCHANGED <<disk, started, loads, req, resp, name_check, pureVars, train>>

\* a second predictor is constructed from the same files, and both predict
predict_reloaded ==
    LET \* the task's predictor as its constructor builds it from the files
        NewPredictor(d, task) ==
            CASE task = "mental_wellness" -> MentalWellnessPredictor(d)
              [] task = "academic_impact" -> AcademicImpactPredictor(d)
              [] task = "stress_prediction" -> StressPredictionPredictor(d)
    IN  /\ started /\ req = NoRequest /\ calls = <<>>
        /\ \E task \in Tasks :
             \E vals \in RepeatRecords(task) :
                /\ Loaded(registry, task)
                /\ loads < MaxLoads
                /\ Construct(disk, task) = "ok"
                /\ LET rec == Rec(Fields(task), vals)
                   IN  /\ calls' = <<CallOn(task, registry[task][1], rec, name_check),
                                     CallOn(task, NewPredictor(disk, task), rec, name_check)>>
                       /\ registry' = [registry EXCEPT
                                         ![task] = <<PredictorAfter(task, registry[task][1], disk)>>]
        /\ loads' = loads + 1
        /\ UNCHANGED <<disk, started, req, resp, name_check, pureVars, train>>

RepeatNext ==
    \/ startup_event
    \/ predict_repeated
    \/ predict_reloaded
    \/ discard_results

RepeatSpec == Init /\ [][RepeatNext]_vars

C14_ServingReadOnly ==
    [][started => (registry' = registry /\ disk' = disk)]_vars

\* a failing predict call has been made and the registry is still the one
\* start-up built
C14_Witness ==
    /\ started /\ Len(calls) = 1
    /\ calls[1].out.result.status = "error"
    /\ registry = StartupRegistry(disk)
    /\ Loaded(registry, calls[1].task)

(***************************************************************************)
(* Concurrent predict calls.  A call reads the shared predictor three      *)
(* times: the bundle when it transforms the record, the model when it      *)
(* predicts, and the metadata (stress: the model's class) when it builds   *)
(* its result.  Calls in progress are kept in calls, each with its         *)
(* position pc and its local values.                                       *)
(***************************************************************************)
\* a thread enters predictor.predict(record)
call_predict ==
    LET ConcurrentRecords(task) ==
            {Example(task), [Example(task) EXCEPT !["gender"] = "Unlisted"]}
    IN  /\ started /\ req = NoRequest
        /\ Len(calls) < MaxCalls
        /\ \E task \in Tasks :
             \E vals \in ConcurrentRecords(task) :
                /\ Loaded(registry, task)
                /\ calls' = Append(calls, [task |-> task, input |-> Rec(Fields(task), vals),
                                           pc |-> "transform", X |-> Transformed("", <<>>, <<>>),
                                           prediction |-> 0, out |-> <<>>])
        /\ UNCHANGED <<disk, registry, started, loads, req, resp, name_check, pureVars, train>>

call_transform ==
    LET \* the transform step of predict, reading the predictor's bundle
        TransformStep(task, p, rec, check) ==
            CASE task = "mental_wellness" ->
                   preprocess_mental_wellness_input(rec, Bundle(task, p.preprocessors), "none")
              [] task = "academic_impact" ->
                   preprocess_academic_input(rec, Bundle(task, p.preprocessors), "none")
              [] task = "stress_prediction" ->
                   stress_transform(rec, Bundle(task, p.preprocessors), "none", check)
    IN  /\ \E i \in 1..Len(calls) :
             /\ calls[i].pc = "transform"
             /\ calls' = [calls EXCEPT
                            ![i].X = TransformStep(calls[i].task, registry[calls[i].task][1],
                                                   calls[i].input, name_check),
                            ![i].pc = "predict"]
        /\ UNCHANGED <<disk, registry, started, loads, req, resp, name_check, pureVars, train>>

call_model_predict ==
    /\ \E i \in 1..Len(calls) :
         /\ calls[i].pc = "predict"
         /\ calls' = [calls EXCEPT
                        ![i].prediction =
                            IF calls[i].X.err # "" THEN 0
                            ELSE ModelPredict(calls[i].task, registry[calls[i].task][1].model,
                                              calls[i].X.row),
                        ![i].pc = "result"]
    /\ UNCHANGED <<disk, registry, started, loads, req, resp, name_check, pureVars, train>>

call_return ==
    LET \* the result predict builds from the values its earlier steps left
        ResultStep(task, p, rec, X, prediction) ==
            CASE task = "mental_wellness" ->
                   IF X.err # "" THEN ErrorResult(X.err, get_model_info(task, p))
                   ELSE SuccessResult(prediction, interpret_mental_wellness_score(prediction),
                                      get_model_info(task, p), X)
              [] task = "academic_impact" ->
                   IF X.err # "" THEN ErrorResult(X.err, get_model_info(task, p))
                   ELSE SuccessResult(prediction, interpret_addiction_score(prediction),
                                      get_model_info(task, p), X)
              [] task = "stress_prediction" ->
                   IF X.err # "" THEN StressErrorResult(X.err)
                   ELSE StressSuccessResult(p, prediction, rec.vals)
    IN  /\ \E i \in 1..Len(calls) :
             /\ calls[i].pc = "result"
             /\ calls' = [calls EXCEPT
                            ![i].out = <<ResultStep(calls[i].task, registry[calls[i].task][1],
                                                    calls[i].input, calls[i].X, calls[i].prediction)>>,
                            ![i].pc = "done"]
             /\ registry' = [registry EXCEPT
                               ![calls[i].task] =
                                   <<PredictorAfter(calls[i].task, registry[calls[i].task][1], disk)>>]
        /\ UNCHANGED <<disk, started, loads, req, resp, name_check, pureVars, train>>

\* every call has returned
calls_joined ==
    /\ calls # <<>>
    /\ \A i \in 1..Len(calls) : calls[i].pc = "done"
    /\ calls' = <<>>
    /\ UNCHANGED <<disk, registry, started, loads, req, resp, name_check, pureVars, train>>

ConcNext ==
    \/ startup_event
    \/ call_predict
    \/ call_transform
    \/ call_model_predict
    \/ call_return
    \/ calls_joined

\* the service starts on the complete artifacts of one training run
ConcInit ==
    /\ disk \in {[f \in AllFiles |-> r] : r \in 1..MaxRun}
    /\ registry = [t \in Tasks |-> None]
    /\ started = FALSE
    /\ loads = 0
    /\ req = NoRequest
    /\ resp = NoResponse
    /\ calls = <<>>
    /\ name_check \in BOOLEAN
    /\ fin = NoInput
    /\ fout = <<>>
    /\ train = NoTraining

ConcSpec == ConcInit /\ [][ConcNext]_vars

\* C15: whatever the interleaving of concurrent predict calls on the same or
\* on different tasks, each call returns exactly the result it returns when
\* it is executed alone on the same input.
C15_ConcurrentCallsIsolated ==
    LET \* the result of the call executed alone against the registry start-up built
        Alone(c) ==
            Predict(c.task, StartupRegistry(disk)[c.task][1], c.input, "none", name_check).result
    IN  \A i \in 1..Len(calls) :
            calls[i].pc = "done" => calls[i].out = <<Alone(calls[i])>>

\* two calls on the same task have both returned, the second to enter having
\* returned first is not excluded
C15_Witness ==
    /\ Len(calls) = 2
    /\ calls[1].task = calls[2].task
    /\ calls[1].input # calls[2].input
    /\ calls[1].pc = "done" /\ calls[2].pc = "done"
    /\ calls[1].out[1].status = "success"

(***************************************************************************)
(* _categorize_stress over the levels a regressor can return               *)
(***************************************************************************)
CategoryInit ==
    LET \* predicted levels, in tenths, a little beyond the 0..10 scale on both sides
        StressLevels == (0 - 20)..120
    IN  /\ Quiet
        /\ fin \in {[field |-> "stress_level", value |-> v] : v \in StressLevels}
        /\ fout = <<>>

categorize_stress ==
    /\ fout = <<>>
    /\ fin.field = "stress_level"
    /\ fout' = <<_categorize_stress(fin.value)>>
    /\ UNCHANGED <<servVars, fin, train>>

CategoryNext == categorize_stress

CategorySpec == CategoryInit /\ [][CategoryNext]_vars

\* C16: the stress category is decided by the cut points 3, 6 and 8 and
\* every level gets exactly one category: Low up to 3, Moderate above 3 up
\* to 6, High above 6 up to 8, Very High above 8; so 2.5 is Low, 5.0
\* Moderate, 7.0 High and 9.0 Very High.
C16_StressCategoryCutPoints ==
    fout # <<>> =>
        /\ fout[1] \in {"Low", "Moderate", "High", "Very High"}
        /\ fout[1] = "Low" <=> fin.value <= 30
        /\ fout[1] = "Moderate" <=> (30 < fin.value /\ fin.value <= 60)
        /\ fout[1] = "High" <=> (60 < fin.value /\ fin.value <= 80)
        /\ fout[1] = "Very High" <=> 80 < fin.value
        /\ fin.value = 25 => fout[1] = "Low"
        /\ fin.value = 50 => fout[1] = "Moderate"
        /\ fin.value = 70 => fout[1] = "High"
        /\ fin.value = 90 => fout[1] = "Very High"

\* the level on a cut point has been categorized
C16_Witness ==
    /\ fin.field = "stress_level" /\ fin.value = 60
    /\ fout = <<"Moderate">>

(***************************************************************************)
(* Best-model selection of the training runs                               *)
(***************************************************************************)
\* the body of the loop with a non-strict comparison
SelectStepNonStrict(best, name, test_r2) ==
    IF best.best_score = <<>> \/ test_r2 >= best.best_score[1]
    THEN [best_score |-> <<test_r2>>, best_name |-> <<name>>]
    ELSE best

\* train.py: if result['test_r2'] > best_score: best_score, best_name = ...
\* (<<>> stands for -inf, below every score)
SelectStep(best, name, test_r2) ==
    IF best.best_score = <<>> \/ test_r2 > best.best_score[1]
    THEN [best_score |-> <<test_r2>>, best_name |-> <<name>>]
    ELSE best

\* train.py: for name, model in all_results: ...
RECURSIVE SelectLoop(_, _, _, _)
SelectLoop(names, scores, i, best) ==
    IF i > Len(names) THEN best
    ELSE SelectLoop(names, scores, i + 1, SelectStep(best, names[i], scores[i]))

\* Python's max(iterable, key=...): the first item is the maximum so far and
\* a later item replaces it only when its key is strictly greater
RECURSIVE PyMaxByKey(_, _, _)
PyMaxByKey(keys, i, maxi) ==
    IF i > Len(keys) THEN maxi
    ELSE PyMaxByKey(keys, i + 1, IF keys[i] > keys[maxi] THEN i ELSE maxi)

SelectInit ==
    LET \* train_stress.py: candidates, a dict in insertion order
        StressCandidates(top_model_name) ==
            <<"Tuned " \o top_model_name, "Voting Ensemble">>
    IN  LET \* train.py: all_results, the candidates in the order they are compared
            WellnessCandidates ==
                <<"Tuned Random Forest", "Tuned Gradient Boosting", "Tuned Extra Trees",
                  "Voting Ensemble", "Stacking Ensemble">>
        IN  LET \* train_stress.py: the baseline models one of which is tuned
                StressBaselines ==
                    {"Linear Ridge", "K-Nearest Neighbors", "Decision Tree", "Random Forest",
                     "Extra Trees", "Gradient Boosting", "Support Vector Regressor"}
            IN  LET \* held-out R2 values a candidate may score (negative R2 is possible)
                    R2Scores == (0 - 1)..2
                IN  LET SelectInputs ==
                            {[task |-> "mental_wellness", names |-> WellnessCandidates, scores |-> s] :
                                s \in [1..Len(WellnessCandidates) -> R2Scores]}
                            \cup
                            {[task |-> "stress_prediction", names |-> StressCandidates(b), scores |-> s] :
                                b \in StressBaselines, s \in [1..2 -> R2Scores]}
                    IN  /\ Quiet
                        /\ fin \in SelectInputs
                        /\ fout = <<>>

\* train.py STEP 5
train_model_select_best ==
    LET \* best_score = -np.inf; best_model = None; best_name = None
        NoBest == [best_score |-> <<>>, best_name |-> None]
    IN  /\ fout = <<>>
        /\ fin.task = "mental_wellness"
        /\ fout' = <<SelectLoop(fin.names, fin.scores, 1, NoBest)>>
        /\ UNCHANGED <<servVars, fin, train>>

\* train_stress.py STEP 5
train_stress_models_select_best ==
    LET \* train_stress.py: best_name = max(candidates.items(), key=lambda x: x[1][1])[0]
        StressSelect(names, scores) ==
            LET i == PyMaxByKey(scores, 2, 1)
            IN  [best_score |-> <<scores[i]>>, best_name |-> <<names[i]>>]
    IN  /\ fout = <<>>
        /\ fin.task = "stress_prediction"
        /\ fout' = <<StressSelect(fin.names, fin.scores)>>
        /\ UNCHANGED <<servVars, fin, train>>

SelectNext ==
    \/ train_model_select_best
    \/ train_stress_models_select_best

SelectSpec == SelectInit /\ [][SelectNext]_vars

\* C17: in both training runs the selected candidate's held-out R2 is at
\* least every other candidate's, and among the candidates that tie for the
\* maximum the one earliest in the candidate order is the one selected.
C17_BestModelSelection ==
    fout # <<>> =>
        \E i \in 1..Len(fin.names) :
            /\ fout[1].best_name = <<fin.names[i]>>
            /\ fout[1].best_score = <<fin.scores[i]>>
            /\ \A j \in 1..Len(fin.names) : fin.scores[j] <= fin.scores[i]
            /\ \A j \in 1..(i - 1) : fin.scores[j] < fin.scores[i]

\* a wellness selection has been made where the second and the last
\* candidate tie for the maximum
C17_Witness ==
    /\ fout # <<>>
    /\ fin.task = "mental_wellness"
    /\ fin.scores[2] = fin.scores[5]
    /\ \A j \in 1..5 : fin.scores[j] <= fin.scores[2]
    /\ fin.scores[1] < fin.scores[2]
    /\ fout[1].best_name = <<"Tuned Gradient Boosting">>

(***************************************************************************)
(* Claims about the order and the outputs of a training run                *)
(***************************************************************************)
\* the stages the specification names, in the order it gives them (loading,
\* engineering and fitting the preprocessors are one call in the code:
\* preprocess_data / preprocess_stress_data)
NamedStageOrder ==
    <<"preprocess", "train_candidates", "tune", "ensemble", "select_best",
      "cross_validate", "save", "report">>

\* the completed stages of the run that the specification names
NamedDone == SelectSeq(train.done, LAMBDA s : s \in Range(NamedStageOrder))

\* C18: a training run passes through the stages load/engineer/preprocess,
\* train candidates, tune, ensemble, select best, cross-validate best,
\* persist, report in that order: at every moment the named stages it has
\* completed are an initial part of that order without repetition, a
\* completed run has completed them all, and a failed run has entered no
\* stage after the one that failed.
C18_FixedStageOrder ==
    train.stage # "idle" =>
        /\ Len(NamedDone) <= Len(NamedStageOrder)
        /\ \A i \in 1..Len(NamedDone) : NamedDone[i] = NamedStageOrder[i]
        /\ train.stage = "done" => NamedDone = NamedStageOrder
        /\ train.stage = "failed" =>
              /\ train.at \notin Range(train.done)
              /\ train.done = SubSeq(Stages(train.task), 1, Len(train.done))
              /\ Stages(train.task)[Len(train.done) + 1] = train.at

\* C19: when a training run completes, a model file, a preprocessing
\* bundle, a feature-name list and a metadata record have each been written
\* by that very run.
C19_CompleteRunWroteAllArtifacts ==
    LET ArtifactKinds == {"model", "preprocessors", "feature_names", "metadata"}
    IN  LET \* what an artifact file holds, by its name
            ArtifactKind(f) ==
                CASE f[2] \in {"best_model.pkl", "stress_model.pkl"} -> "model"
                  [] f[2] \in {"preprocessors.pkl", "stress_preprocessors.pkl"} -> "preprocessors"
                  [] f[2] = "feature_names.pkl" -> "feature_names"
                  [] f[2] = "model_metadata.pkl" -> "metadata"
        IN  train.stage = "done" =>
                \A kind \in ArtifactKinds :
                    \E f \in AllFiles : ArtifactKind(f) = kind /\ disk[f] = train.id

(***************************************************************************)
(* The stress recommendation list                                          *)
(***************************************************************************)
RecommendInit ==
    LET \* predicted stress levels (tenths) on both sides of the 6.0 threshold
        PredictedLevels == {0, 55, 60, 61, 75, 100}
    IN  LET \* the raw records the stress schema accepts
            StressRecords ==
                {vals \in Bodies("stress_prediction") :
                    Valid("stress_prediction", Ordered("stress_prediction", vals))}
        IN  /\ Quiet
            /\ fin \in {[field |-> "recommendations",
                         value |-> [input_data |-> r, first |-> a, second |-> b]] :
                           r \in StressRecords, a \in PredictedLevels, b \in PredictedLevels}
            /\ fout = <<>>

\* two predictions for the same raw record, each building its list
get_recommendations ==
    /\ fout = <<>>
    /\ fin.field = "recommendations"
    /\ fout' = <<[first  |-> _get_recommendations(fin.value.first, fin.value.input_data),
                  second |-> _get_recommendations(fin.value.second, fin.value.input_data)]>>
    /\ UNCHANGED <<servVars, fin, train>>

RecommendNext == get_recommendations

RecommendSpec == RecommendInit /\ [][RecommendNext]_vars

\* C20: the recommendation list depends on the raw record alone: two stress
\* predictions for the same record carry the same list whatever stress
\* level each of them predicted.
C20_RecommendationsFromRecordAlone ==
    (fout # <<>> /\ fin.field = "recommendations") => fout[1].first = fout[1].second

\* C20 (amended): two stress predictions for the same raw record carry the
\* same recommendation list whenever their predicted levels are both above
\* 6.0 or both at most 6.0; the level enters the list only through that
\* threshold.
C20_RecommendationsSameSide ==
    (fout # <<>> /\ fin.field = "recommendations") =>
        (((fin.value.first > 60) <=> (fin.value.second > 60))
            => fout[1].first = fout[1].second)

\* two predictions of different levels above 6.0 for a record that sleeps
\* too little: both lists start with the stress-management advice
C20_Witness ==
    /\ fout # <<>>
    /\ fin.field = "recommendations"
    /\ fin.value.first = 61
    /\ fin.value.second = 100
    /\ fin.value.input_data["sleep_hours"] < 70
    /\ fout[1].first[1] = "Consider stress management techniques like meditation or yoga"
    /\ fout[1].second[2] = "Aim for 7-9 hours of sleep per night"

(***************************************************************************)
(* Claims about what a loaded predictor holds                              *)
(***************************************************************************)
\* C21: a registry entry is non-empty only if every artifact its predictor
\* needs was loaded at start-up: each attribute of a registered predictor
\* comes from a file that was present and readable, a task with a missing
\* or unreadable file has an empty entry, and so every predict call runs on
\* a completely loaded predictor.
C21_LoadedMeansComplete ==
    \A t \in Tasks :
        /\ Loaded(registry, t) =>
              /\ Complete(disk, t)
              /\ \A k \in DOMAIN registry[t][1] : registry[t][1][k] \in 1..MaxRun
        /\ \A i \in 1..Len(calls) :
              calls[i].task = t => (Loaded(registry, t) /\ Complete(disk, t))

\* the stress model file is missing, start-up left the stress entry empty
\* and registered the wellness predictor, which has served a call
C21_Witness ==
    /\ started
    /\ disk[StressModelPath] = Absent
    /\ ~Loaded(registry, "stress_prediction")
    /\ Loaded(registry, "mental_wellness")
    /\ Len(calls) = 1
    /\ calls[1].task = "mental_wellness"

\* C22: GET /health answers 200 with status 'healthy' and a models map in
\* every load state of the registry, also when no model is loaded; each
\* model's entry reads 'ready' exactly when its predictor is loaded.
C22_HealthAlwaysHealthy ==
    req.task = "health" =>
        /\ resp.code = 200
        /\ resp.body.status = "healthy"
        /\ DOMAIN resp.body.models = Tasks
        /\ \A t \in Tasks : (resp.body.models[t] = "ready") <=> Loaded(registry, t)
        /\ \A t \in Tasks : resp.body.models[t] \in {"ready", "not ready"}

\* the health check has answered while none of the three models is loaded
C22_Witness ==
    /\ req.task = "health"
    /\ resp.code = 200
    /\ \A t \in Tasks : ~Loaded(registry, t) /\ resp.body.models[t] = "not ready"

(***************************************************************************)
(* Training-time and serving-time feature engineering of the same record.  *)
(* The training scripts engineer the whole data set at once, so a column   *)
(* statistic is taken over the batch; the serving transforms engineer the  *)
(* request's single row.                                                   *)
(***************************************************************************)
\* mental_health/preprocess.py, preprocess_data, steps 4, 6 and 7 for the
\* row r of the data set batch (a sequence of rows): the column maxima, twice
\* the column median (pandas averages the two middle values of an even
\* count), and the features computed with them
preprocess_data(r, batch) ==
    LET col(c) == [i \in 1..Len(batch) |-> batch[i][c]]
        max(c) == CHOOSE x \in Range(col(c)) : \A y \in Range(col(c)) : y <= x
        kth(c, k) == CHOOSE x \in Range(col(c)) :
                        /\ Cardinality({i \in 1..Len(batch) : col(c)[i] < x}) < k
                        /\ Cardinality({i \in 1..Len(batch) : col(c)[i] <= x}) >= k
        median2(c) == kth(c, (Len(batch) + 1) \div 2) + kth(c, (Len(batch) + 2) \div 2)
    IN  [denominators |-> [sleep_quality_1_5 |-> 5,
                           exercise_minutes_per_week |-> max("exercise_minutes_per_week"),
                           social_hours_per_week |-> max("social_hours_per_week")],
         median2 |-> median2("screen_time_hours"),
         age_group |-> cut(r["age"], <<0, 25, 35, 45, 100>>, <<0, 1, 2, 3>>),
         high_screen_time |-> B(2 * r["screen_time_hours"] > median2("screen_time_hours"))]

EngineerInit ==
    LET \* the rows a record is trained with: alone, with the documented example,
        \* and with a row whose exercise, social time and screen time are 300
        \* minutes, 20 hours and 8 hours
        Batches(task, vals) ==
            LET full == [Example(task) EXCEPT !["exercise_minutes_per_week"] = 300,
                                              !["social_hours_per_week"] = 200,
                                              !["screen_time_hours"] = 80,
                                              !["work_screen_hours"] = 60,
                                              !["leisure_screen_hours"] = 20]
            IN  {<<vals>>, <<vals, Example(task)>>, <<vals, full>>, <<vals, Example(task), full>>}
    IN  LET MinAge == 18
            MaxAge == 100
            EngineeredTasks == {"mental_wellness", "stress_prediction"}
            \* the schema-valid request bodies, and the example at every age
            records(task) ==
                {vals \in Bodies(task) : Valid(task, Ordered(task, vals))}
                \cup {[Example(task) EXCEPT !["age"] = a] : a \in MinAge..MaxAge}
            inputs(task) ==
                UNION {{[task |-> task, vals |-> vals, batch |-> b] : b \in Batches(task, vals)} :
                         vals \in records(task)}
        IN  /\ Quiet
            /\ fin \in {[field |-> "engineer", value |-> x] :
                          x \in UNION {inputs(task) : task \in EngineeredTasks}}
            /\ fout = <<>>

\* the record engineered by the training script within its batch, and by the
\* serving transform on its own; the serving statistics in the units of the
\* columns (hours in tenths)
engineer ==
    LET \* mental_health/preprocess_stress.py, preprocess_stress_data, steps 7, 8 and 9:
        \* the same statistics and the same bins as preprocess_data
        preprocess_stress_data(r, batch) == preprocess_data(r, batch)
    IN  /\ fout = <<>>
        /\ fin.field = "engineer"
        /\ LET task == fin.value.task
               vals == fin.value.vals
               sc == ServingConstants(task, vals)
               scale(f) == IF task = "mental_wellness" THEN Unit(f) ELSE 1
           IN  fout' = <<[train |-> IF task = "mental_wellness"
                                    THEN preprocess_data(vals, fin.value.batch)
                                    ELSE preprocess_stress_data(vals, fin.value.batch),
                          serve |-> IF task = "mental_wellness"
                                    THEN engineer_mental_wellness(Ordered(task, vals))
                                    ELSE _engineer_features(DropUserId(DataFrame(Ordered(task, vals)))),
                          denominators |->
                              [f \in {"sleep_quality_1_5", "exercise_minutes_per_week",
                                      "social_hours_per_week"} |-> sc.denominators[f] * scale(f)],
                          median2 |-> 2 * sc.threshold]>>
        /\ UNCHANGED <<servVars, fin, train>>

EngineerNext == engineer

EngineerSpec == EngineerInit /\ [][EngineerNext]_vars

\* C23: for every age from 18 to 100 the serving transform of the wellness
\* task and of the stress task gives the record the age_group the training
\* script gives it with the edges 0, 25, 35, 45, 100: 0 up to 25, 1 from 26
\* to 35, 2 from 36 to 45, 3 from 46 to 100.
C23_AgeGroupAgrees ==
    fout # <<>> =>
        LET age == fin.value.vals["age"]
        IN  /\ fout[1].serve.err = ""
            /\ "age_group" \in DOMAIN fout[1].serve.v
            /\ fout[1].train.age_group # <<>>
            /\ fout[1].serve.v["age_group"] = I(fout[1].train.age_group[1])
            /\ fout[1].train.age_group[1] =
                 (IF age <= 25 THEN 0 ELSE IF age <= 35 THEN 1 ELSE IF age <= 45 THEN 2 ELSE 3)

\* an age on an edge has been engineered by the stress task on both sides
C23_Witness ==
    /\ fout # <<>>
    /\ fin.field = "engineer"
    /\ fin.value.task = "stress_prediction"
    /\ fin.value.vals["age"] = 35
    /\ fout[1].serve.v["age_group"] = I(1)
    /\ fout[1].train.age_group = <<1>>

\* C24: every engineered feature of the wellness and stress tasks that uses
\* a statistic of the training batch (the health score normalised by the
\* column maxima, high_screen_time thresholded at the column median) is
\* computed at serving time with the value the training batch had.
C24_ServingUsesTrainingStatistics ==
    fout # <<>> =>
        /\ fout[1].denominators = fout[1].train.denominators
        /\ fout[1].median2 = fout[1].train.median2
        /\ fout[1].serve.v["high_screen_time"] = fout[1].train.high_screen_time

\* C25: for every schema-valid record every engineered feature is a defined
\* number at serving time: no division by zero and no NaN, also when
\* screen_time_hours, sleep_hours, work_screen_hours,
\* exercise_minutes_per_week or social_hours_per_week is 0.
C25_EngineeredFeaturesDefined ==
    fout # <<>> =>
        LET NonZero(q) == q.den # 0 \/ q.eps # 0
            Defined(c) ==
                /\ "nan" \notin DOMAIN c
                /\ "den" \in DOMAIN c => NonZero(c)
                /\ "terms" \in DOMAIN c => \A i \in 1..Len(c.terms) : NonZero(c.terms[i])
        IN  /\ fout[1].serve.err = ""
            /\ \A k \in DOMAIN fout[1].serve.v : Defined(fout[1].serve.v[k])

\* C26: in each of the three variants a prediction comes out of the steps
\* engineer, impute the numeric columns with the bundle's imputer, encode,
\* fill the absent features with 0, reindex to the saved feature order, scale,
\* predict, in this order and with no step left out.
C26_ServingStepOrder ==
    \A i \in 1..Len(calls) :
        "predict" \in Range(calls[i].out.steps) =>
            /\ Len(calls[i].out.steps) >= 7
            /\ SubSeq(calls[i].out.steps, 1, 7)
                 = <<"engineer", "impute", "encode", "fill", "reindex", "scale", "predict">>

\* C27: a wellness request whose work_screen_hours or leisure_screen_hours
\* exceeds its screen_time_hours is rejected by validation (422, predict not
\* called), so no record that reaches feature engineering has a component
\* larger than its total.
C27_ScreenComponentWithinTotal ==
    LET Exceeds(vals) ==
            \E f \in {"work_screen_hours", "leisure_screen_hours"} :
                /\ {f, "screen_time_hours"} \subseteq DOMAIN vals
                /\ vals[f] > vals["screen_time_hours"]
    IN  /\ (req.task = "mental_wellness" /\ Exceeds(req.body.vals))
              => (resp.code = 422 /\ calls = <<>>)
        /\ \A i \in 1..Len(calls) :
              calls[i].task = "mental_wellness" => ~Exceeds(calls[i].input.vals)

\* a loaded wellness model was sent a record whose fields are all in range
\* and whose leisure screen time is above the total, and answered 422
C27_Witness ==
    /\ req.task = "mental_wellness" /\ Loaded(registry, "mental_wellness")
    /\ \A f \in Range(MentalWellnessFields) : FieldValid("mental_wellness", req.body, f)
    /\ req.body.vals["work_screen_hours"] <= req.body.vals["screen_time_hours"]
    /\ req.body.vals["leisure_screen_hours"] > req.body.vals["screen_time_hours"]
    /\ resp.code = 422 /\ calls = <<>>

\* C28: at every moment at which a serving process may start, also while a
\* training run is under way or after one has failed, the bundle file and
\* the model file it loads for a task were written by the same training run.
C28_BundleAndModelOfOneRun ==
    LET pairs == {<<Path("mental_health", "preprocessors.pkl"), Path("mental_health", "best_model.pkl")>>,
                  <<StressPreprocessorPath, StressModelPath>>}
    IN  \A p \in pairs :
            (disk[p[1]] # Absent /\ disk[p[2]] # Absent) => disk[p[1]] = disk[p[2]]

\* C29: the stress recommendation list is never empty, and it contains
\* 'Maintain your current healthy lifestyle' exactly when none of the five
\* rules fired: stress above 6, sleep_hours below 7, screen_time_hours above
\* 10, exercise below 150 minutes a week, social time below 5 hours a week.
C29_MaintainIffNoRuleFired ==
    (fout # <<>> /\ fin.field = "recommendations") =>
        LET r == fin.value.input_data
            Fired(level) ==
                \/ level > 60
                \/ r["sleep_hours"] < 70
                \/ r["screen_time_hours"] > 100
                \/ r["exercise_minutes_per_week"] < 150
                \/ r["social_hours_per_week"] < 50
            Holds(level, list) ==
                /\ list # <<>>
                /\ ("Maintain your current healthy lifestyle" \in Range(list)) <=> ~Fired(level)
        IN  /\ Holds(fin.value.first, fout[1].first)
            /\ Holds(fin.value.second, fout[1].second)

\* a record no lifestyle rule fires for, predicted once at 6.0 and once
\* above: the first list is the default alone, the second has no default
C29_Witness ==
    /\ fout # <<>>
    /\ fin.field = "recommendations"
    /\ fin.value.first = 60
    /\ fin.value.second = 61
    /\ fout[1].first = <<"Maintain your current healthy lifestyle">>
    /\ fout[1].second = <<"Consider stress management techniques like meditation or yoga">>

(***************************************************************************)
(* The three places that name the band of a stress level: the text of      *)
(* _interpret_stress, _categorize_stress, and categorize_stress of the     *)
(* evaluation script                                                       *)
(***************************************************************************)
BandInit ==
    LET \* stress levels, in tenths, a little beyond the 0..10 scale on both sides
        StressLevels == (0 - 20)..120
    IN  /\ Quiet
        /\ fin \in {[field |-> "stress_band", value |-> v] : v \in StressLevels}
        /\ fout = <<>>

\* the level interpreted and categorised by the predictor, and categorised
\* by the evaluation script
stress_bands ==
    LET \* mental_health/evaluate_stress.py, evaluate_stress_model.categorize_stress
        \* (level in tenths)
        evaluate_categorize_stress(level) ==
            IF level <= 30 THEN "Low"
            ELSE IF level <= 60 THEN "Moderate"
            ELSE IF level <= 80 THEN "High"
            ELSE "Very High"
    IN  /\ fout = <<>>
        /\ fin.field = "stress_band"
        /\ fout' = <<[interpretation |-> _interpret_stress(fin.value),
                      category       |-> _categorize_stress(fin.value),
                      evaluation     |-> evaluate_categorize_stress(fin.value)]>>
        /\ UNCHANGED <<servVars, fin, train>>

BandNext == stress_bands

BandSpec == BandInit /\ [][BandNext]_vars

\* C30: for every stress level the band named at the head of the
\* interpretation text, the category of _categorize_stress and the category
\* of the evaluation script's categorize_stress are one and the same band.
C30_OneBandEverywhere ==
    (fout # <<>> /\ fin.field = "stress_band") =>
        LET \* the words a text may name a band with, and the band's category name
            Named == [w \in {"Low", "Moderate", "High", "Very high"} |->
                        IF w = "Very high" THEN "Very High" ELSE w]
            \* what a text says after the band it names
            Advice == {"You're managing well with minimal stress",
                       "Normal stress levels, manageable",
                       "Elevated stress, consider stress management techniques",
                       "Critical stress levels, professional help recommended"}
            \* the text names band w at its head: "<w> stress - ..."
            Heads(text, w) == \E rest \in Advice : text = (w \o " stress - ") \o rest
        IN  /\ \E w \in DOMAIN Named : Heads(fout[1].interpretation, w)
            /\ \A w \in DOMAIN Named :
                 Heads(fout[1].interpretation, w) =>
                    /\ fout[1].category = Named[w]
                    /\ fout[1].evaluation = Named[w]

\* the level 8.0, the upper edge of the High band, in all three places
C30_Witness ==
    /\ fout # <<>>
    /\ fin.field = "stress_band"
    /\ fin.value = 80
    /\ fout[1].interpretation
         = "High stress - Elevated stress, consider stress management techniques"
    /\ fout[1].category = "High"
    /\ fout[1].evaluation = "High"

====
